---- MODULE Spec2Model ----
(***************************************************************************)
(* Gaze touch automation: the touch recorder (StartTouchRecording,         *)
(* StopTouchRecording, the reader goroutine, the two queries) and the      *)
(* touch player (PlayTouchScript, its playback goroutine,                  *)
(* StopTouchPlayback, IsPlayingTouch), as state machines over the          *)
(* package-level maps and the two mutexes of the automation source, and    *)
(* the parser of raw lines (parseRawEvents), one step per raw line.        *)
(*                                                                         *)
(* Every API call is executed by a caller thread. A pc value names the     *)
(* blocking operation the thread is in: a mutex acquisition (xx_lock), an  *)
(* executor command or a process-exit wait. One step runs from the return  *)
(* of one blocking operation to the entry of the next, so the statements   *)
(* executed inside a critical section that contains no blocking operation  *)
(* form a single step.                                                     *)
(***************************************************************************)
EXTENDS Integers, Sequences, FiniteSets, TLC

\* ---- bounds ------------------------------------------------------------
MaxSessions == 2     \* event-stream processes (sessions) ever launched
MaxLines    == 2     \* "EV_" lines the readers scan, all streams together
MaxPlays    == 2     \* playbacks ever launched
MaxStrokes  == 2     \* strokes in the raw lines of a parsed session
MaxKids     == 2     \* children of the root of a UI tree
MaxIndex    == 2     \* largest Index of a selector
MaxBlocks   == 3     \* device blocks in the output of getevent -p
MaxCalls    == 3     \* calls of the script store
MaxNow      == 2     \* latest time of a call of the script store, in seconds
MaxTimed    == 2     \* events of a script played against the clock
MaxClock    == 5     \* latest time of the clock of a playback, in milliseconds

Devices == {"d1", "d2"}
Callers == {"c1", "c2"}
Sids    == 1..MaxSessions
NoSid   == 0
Pids    == 1..MaxPlays
NoPid   == 0
\* the scripts callers play: sequences of events [Type, cmdOk, ahead]; cmdOk is
\* whether the executor command issued for the event succeeds, ahead whether the
\* event's Timestamp is still ahead of the elapsed time when the loop reaches it
Ev(type, ok, ahead) == [Type |-> type, cmdOk |-> ok, ahead |-> ahead]
Scripts == { << >>,
             <<Ev("tap", FALSE, FALSE), Ev("wait", TRUE, FALSE),
               Ev("swipe", TRUE, TRUE), Ev("unknown", TRUE, FALSE)>> }
Free    == "free"

VARIABLES
  \* recorder, shared
  touchRecordMu,      \* holder of the recording mutex, or Free
  touchRecordCmd,     \* device -> process handle (session id) or NoSid
  touchRecordCancel,  \* device -> cancel handle (session id) or NoSid
  touchRecordData,    \* device -> session pointer (session id) or NoSid
  session,            \* session id -> [DeviceID, RawEvents]
  proc,               \* session id -> state of its getevent process
  scanned,            \* session id -> "EV_" lines its reader has scanned
  rpc,                \* session id -> position of the reader goroutine
  rline,              \* session id -> line the reader holds
  nextSid,            \* next session id to allocate
  recEvents,          \* device -> notifications emitted by the recorder
  \* caller threads
  pc,                 \* caller -> position
  dev,                \* caller -> deviceId argument of the call in progress
  loc,                \* caller -> locals of the call in progress
  ret,                \* result [who, err, val] of the call completed last, until a call begins
  \* history of the recorder
  appendLog,          \* session id -> lines appended to it, in append order
  parsed,             \* session id -> raw lines handed to parseRawEvents, per harvest
  removedSids,        \* sessions whose map entries were deleted
  scriptRes,          \* session id -> Resolution of the script its harvest returned
  \* player, shared
  touchPlaybackCancel,\* device -> cancel handle (playback id) or NoPid
  ctxDone,            \* playback id -> its context has been cancelled
  play,               \* playback id -> [DeviceID, Events] captured by the goroutine
  gpc,                \* playback id -> position of the playback goroutine
  gi,                 \* playback id -> index (from 1) of the event of the current iteration
  nextPid,            \* next playback id to allocate
  issued,             \* playback id -> device commands issued: <<event index, succeeded>>
  progress,           \* playback id -> "current" of its touch-playback-progress notifications
  playEvents,         \* playback id -> its started / completed notifications, in order
  stopCalled,         \* playback id -> StopTouchPlayback was called for its device
                      \*   while it ran its event loop
  \* parseRawEvents
  ppc,                \* position of the parser: idle, in its loop, returned
  psession,           \* the session being parsed
  pidx,               \* raw lines the loop has consumed
  ploc,               \* the locals of parseRawEvents
  pevents,            \* script.Events
  pstrokes,           \* per event: the raw and scaled endpoints, the duration and
                      \*   the divisors it was computed from
  \* selector engine
  selOp,              \* the call of the selector engine made last, or idle
  selRoot,            \* its root argument
  selSel,             \* its selector argument
  selNode,            \* its node argument
  selQuery,           \* its advanced query
  selRes,             \* what it returned
  \* input device locator
  devOp,              \* idle, or returned
  devOutput,          \* the device blocks of the output GetTouchInputDevice read
  devRet,             \* what it returned: [path, err]
  \* script store
  files,              \* the scripts directory: file name -> content
  now,                \* the time in seconds
  storeCalls,         \* calls of the store made
  storeOp,            \* the call made last: [op, name]
  storeRet,           \* the error it returned
  loaded,             \* the scripts LoadTouchScripts returned last
  lastSaved,          \* the script saved last, until a script is deleted
  savedBefore,        \* the script saved before it, until a script is deleted
  \* pacing of a playback
  pacePc,             \* position of the goroutine: idle, head, sleep, cmd, wsleep, done
  paceScript,         \* script.Events
  paceStart,          \* startTime
  paceNow,            \* the clock
  paceI,              \* index (from 1) of the event of the current iteration
  paceWake,           \* when the timer the goroutine blocks on was set to fire
  paceDone,           \* the context has been cancelled
  paceSlept,          \* elapsed and sleepDuration of the pacing sleep in progress
  paceLog,            \* per event that reached the switch: when it was due,
                      \*   checked and reached, and how long the goroutine slept
  paceProgress        \* "current" of the progress notifications

mapVars    == <<touchRecordCmd, touchRecordCancel, touchRecordData>>
readerVars == <<scanned, rpc, rline>>
histVars   == <<appendLog, parsed, removedSids, scriptRes>>
recVars    == <<touchRecordMu, mapVars, session, proc, readerVars, nextSid,
                recEvents, histVars>>
playVars   == <<touchPlaybackCancel, ctxDone, play, gpc, gi, nextPid, issued,
                progress, playEvents, stopCalled>>
callerVars == <<pc, dev, loc, ret>>
parseVars  == <<ppc, psession, pidx, ploc, pevents, pstrokes>>
selVars    == <<selOp, selRoot, selSel, selNode, selQuery, selRes>>
devVars    == <<devOp, devOutput, devRet>>
storeVars  == <<files, now, storeCalls, storeOp, storeRet, loaded, lastSaved, savedBefore>>
paceVars   == <<pacePc, paceScript, paceStart, paceNow, paceI, paceWake, paceDone,
                paceSlept, paceLog, paceProgress>>
auxVars    == <<selVars, devVars, storeVars, paceVars>>
vars       == <<recVars, playVars, callerVars, parseVars, auxVars>>

NoLoc  == [cancel |-> NoSid, cmd |-> NoSid, sess |-> NoSid, pid |-> NoPid,
           resolution |-> "none", wmSize |-> "none"]
NoRet  == [who |-> "none", err |-> "none", val |-> 0]
\* a nil *UINode, a nil *ElementSelector, and the query and result of no call
NilNode == [kind |-> "nil"]
NilSel  == [Type |-> "nil"]
NoQuery == [str |-> <<"-">>, conds |-> << >>, seps |-> << >>]
NoRes   == [op |-> "none"]
\* no script, and the scripts directory with no file
NoScript == [DeviceID |-> "none"]
EmptyDir == [f \in {} |-> [kind |-> "other"]]

Init ==
  /\ touchRecordMu = Free
  /\ touchRecordCmd = [d \in Devices |-> NoSid]
  /\ touchRecordCancel = [d \in Devices |-> NoSid]
  /\ touchRecordData = [d \in Devices |-> NoSid]
  /\ session = [s \in Sids |-> [DeviceID |-> "none", RawEvents |-> << >>,
                                Resolution |-> "none", wmSize |-> "none"]]
  /\ proc = [s \in Sids |-> "none"]
  /\ scanned = [s \in Sids |-> 0]
  /\ rpc = [s \in Sids |-> "none"]
  /\ rline = [s \in Sids |-> << >>]
  /\ nextSid = 1
  /\ recEvents = [d \in Devices |-> << >>]
  /\ pc = [t \in Callers |-> "idle"]
  /\ dev = [t \in Callers |-> "none"]
  /\ loc = [t \in Callers |-> NoLoc]
  /\ ret = NoRet
  /\ appendLog = [s \in Sids |-> << >>]
  /\ parsed = [s \in Sids |-> << >>]
  /\ removedSids = {}
  /\ scriptRes = [s \in Sids |-> "none"]
  /\ touchPlaybackCancel = [d \in Devices |-> NoPid]
  /\ ctxDone = [p \in Pids |-> FALSE]
  /\ play = [p \in Pids |-> [DeviceID |-> "none", Events |-> << >>]]
  /\ gpc = [p \in Pids |-> "none"]
  /\ gi = [p \in Pids |-> 0]
  /\ nextPid = 1
  /\ issued = [p \in Pids |-> << >>]
  /\ progress = [p \in Pids |-> << >>]
  /\ playEvents = [p \in Pids |-> << >>]
  /\ stopCalled = [p \in Pids |-> FALSE]
  /\ ppc = "idle"
  /\ psession = [Resolution |-> << >>, MinX |-> 0, MaxX |-> 0, MinY |-> 0, MaxY |-> 0,
                 RawEvents |-> << >>]
  /\ pidx = 0
  /\ ploc = [screenW |-> 0, screenH |-> 0, minX |-> 0, maxX |-> 0, minY |-> 0,
             maxY |-> 0, firstTimestamp |-> -1, currentX |-> -1, currentY |-> -1,
             touchStartTime |-> -1, touchStartX |-> -1, touchStartY |-> -1,
             tracking |-> FALSE]
  /\ pevents = << >>
  /\ pstrokes = << >>
  /\ selOp = "idle"
  /\ selRoot = NilNode
  /\ selSel = NilSel
  /\ selNode = NilNode
  /\ selQuery = NoQuery
  /\ selRes = NoRes
  /\ devOp = "idle"
  /\ devOutput = << >>
  /\ devRet = [path |-> << >>, err |-> "nil"]
  /\ files = EmptyDir
  /\ now = 1
  /\ storeCalls = 0
  /\ storeOp = [op |-> "none", name |-> << >>]
  /\ storeRet = "nil"
  /\ loaded = << >>
  /\ lastSaved = NoScript
  /\ savedBefore = NoScript
  /\ pacePc = "idle"
  /\ paceScript = << >>
  /\ paceStart = 0
  /\ paceNow = 0
  /\ paceI = 0
  /\ paceWake = 0
  /\ paceDone = FALSE
  /\ paceSlept = [checked |-> 0, slept |-> 0]
  /\ paceLog = << >>
  /\ paceProgress = << >>

\* ---- helpers -------------------------------------------------------------
Call(t, d, p) ==
  /\ pc[t] = "idle"
  /\ pc' = [pc EXCEPT ![t] = p]
  /\ dev' = [dev EXCEPT ![t] = d]
  /\ ret' = NoRet
  /\ UNCHANGED loc
Return(t, e, v) ==
  /\ pc' = [pc EXCEPT ![t] = "idle"]
  /\ ret' = [who |-> t, err |-> e, val |-> v]
  /\ loc' = [loc EXCEPT ![t] = NoLoc]
  /\ dev' = [dev EXCEPT ![t] = "none"]
Goto(t, p) ==
  /\ pc' = [pc EXCEPT ![t] = p]
  /\ UNCHANGED <<dev, ret>>

\* ---- StartTouchRecording -------------------------------------------------
\* start calls that may still launch a stream process
StartsInFlight == Cardinality({t \in Callers : pc[t] \in {"sr_lock", "sr_locate", "sr_resolution"}})

CallStartTouchRecording(t, d) ==
  /\ nextSid + StartsInFlight <= MaxSessions
  /\ Call(t, d, "sr_lock")
  /\ UNCHANGED recVars
  /\ UNCHANGED <<playVars, parseVars, auxVars>>

\* the exists check left out
StartExists_Unchecked(d) == FALSE

\* if _, exists := touchRecordCmd[deviceId]; exists { return "already recording" }
StartExists(d) == touchRecordCmd[d] # NoSid

\* touchRecordMu.Lock(); defer Unlock(); the exists check; enter GetTouchInputDevice
SrLock(t) ==
  /\ pc[t] = "sr_lock"
  /\ touchRecordMu = Free
  /\ IF StartExists(dev[t])
       THEN /\ Return(t, "AlreadyRecording", 0)
            /\ UNCHANGED touchRecordMu
       ELSE /\ touchRecordMu' = t
            /\ Goto(t, "sr_locate")
            /\ UNCHANGED loc
  /\ UNCHANGED <<mapVars, session, proc, readerVars, nextSid, recEvents, histVars>>
  /\ UNCHANGED <<playVars, parseVars, auxVars>>

\* a failed lookup returns with the mutex still held
SrLocate_FailureKeepsLock(t) ==
  /\ pc[t] = "sr_locate"
  /\ \E found \in BOOLEAN :
       IF found
         THEN /\ Goto(t, "sr_resolution")
              /\ UNCHANGED loc
         ELSE Return(t, "InputDeviceNotFound", 0)
  /\ UNCHANGED <<touchRecordMu, mapVars, session, proc, readerVars, nextSid, recEvents,
                 histVars>>
  /\ UNCHANGED <<playVars, parseVars, auxVars>>

\* GetTouchInputDevice returns (one executor command); on success enter GetDeviceResolution
SrLocate(t) ==
  /\ pc[t] = "sr_locate"
  /\ \E found \in BOOLEAN :
       IF found
         THEN /\ Goto(t, "sr_resolution")
              /\ UNCHANGED <<touchRecordMu, loc>>
         ELSE /\ touchRecordMu' = Free
              /\ Return(t, "InputDeviceNotFound", 0)
  /\ UNCHANGED <<mapVars, session, proc, readerVars, nextSid, recEvents, histVars>>
  /\ UNCHANGED <<playVars, parseVars, auxVars>>

\* GetDeviceResolution, given what "shell wm size" did: "fails" (the command
\* returns an error), "garbage" (output with no WxH) or the WxH of its output
\*   if err != nil { return "", err }; if len(matches) >= 3 { return W + "x" + H };
\*   return "1080x1920"
GetDeviceResolution(wm) ==
  CASE wm = "fails"   -> ""
    [] wm = "garbage" -> "1080x1920"
    [] OTHER          -> wm

\* GetDeviceResolution returns (one executor command, wm what it did): resolution,
\* _ := ...; context.WithCancel, exec.CommandContext, the two pipes, cmd.Start();
\* enter RunAdbCommand(getevent -p)
SrResolution(t, wm) ==
  /\ pc[t] = "sr_resolution"
  /\ \E started \in BOOLEAN :
       IF started
         THEN /\ proc' = [proc EXCEPT ![nextSid] = "running"]
              /\ loc' = [loc EXCEPT ![t].sess = nextSid,
                                    ![t].resolution = GetDeviceResolution(wm),
                                    ![t].wmSize = wm]
              /\ nextSid' = nextSid + 1
              /\ Goto(t, "sr_props")
              /\ UNCHANGED touchRecordMu
         ELSE /\ touchRecordMu' = Free
              /\ Return(t, "StartFailed", 0)
              /\ UNCHANGED <<proc, nextSid>>
  /\ UNCHANGED <<mapVars, session, readerVars, recEvents, histVars>>
  /\ UNCHANGED <<playVars, parseVars, auxVars>>

\* RunAdbCommand(getevent -p) returns; store the three map entries; launch the
\* reader goroutine; EventsEmit("touch-record-started"); return nil (deferred Unlock)
SrProps(t) ==
  /\ pc[t] = "sr_props"
  /\ LET s == loc[t].sess
         d == dev[t]
     IN /\ touchRecordCmd' = [touchRecordCmd EXCEPT ![d] = s]
        /\ touchRecordCancel' = [touchRecordCancel EXCEPT ![d] = s]
        /\ touchRecordData' = [touchRecordData EXCEPT ![d] = s]
        /\ session' = [session EXCEPT ![s] = [DeviceID |-> d, RawEvents |-> << >>,
                                              Resolution |-> loc[t].resolution,
                                              wmSize |-> loc[t].wmSize]]
        /\ rpc' = [rpc EXCEPT ![s] = "scan"]
        /\ recEvents' = [recEvents EXCEPT ![d] =
                           Append(@, [name |-> "touch-record-started", of |-> s])]
  /\ touchRecordMu' = Free
  /\ Return(t, "nil", 0)
  /\ UNCHANGED <<proc, scanned, rline, nextSid, histVars>>
  /\ UNCHANGED <<playVars, parseVars, auxVars>>

\* ---- StopTouchRecording --------------------------------------------------
CallStopTouchRecording(t, d) ==
  /\ Call(t, d, "st_lock1")
  /\ UNCHANGED recVars
  /\ UNCHANGED <<playVars, parseVars, auxVars>>

\* cancel(): the context of the stream process is cancelled, which kills the process
Cancelled(p, s) == [p EXCEPT ![s] = IF @ = "running" THEN "cancelled" ELSE @]

\* the exists result ignored
StopExists_Ignored(d) == TRUE

\* cancel, exists := touchRecordCancel[deviceId]
StopExists(d) == touchRecordCancel[d] # NoSid

\* Lock(); read cancel and cmd; Unlock(); if !exists { return "no active recording
\* for this device" }; cancel(); enter cmd.Wait()
StLock1(t) ==
  /\ pc[t] = "st_lock1"
  /\ touchRecordMu = Free
  /\ IF StopExists(dev[t])
       THEN /\ loc' = [loc EXCEPT ![t].cancel = touchRecordCancel[dev[t]],
                                  ![t].cmd = touchRecordCmd[dev[t]]]
            /\ proc' = Cancelled(proc, touchRecordCancel[dev[t]])
            /\ Goto(t, "st_wait")
       ELSE /\ Return(t, "NotRecording", 0)
            /\ UNCHANGED proc
  /\ UNCHANGED <<touchRecordMu, mapVars, session, readerVars, nextSid, recEvents,
                 histVars>>
  /\ UNCHANGED <<playVars, parseVars, auxVars>>

\* if cmd != nil { _ = cmd.Wait() } returns once the process has exited;
\* time.Sleep(100 * time.Millisecond); enter the second Lock()
StWait(t) ==
  /\ pc[t] = "st_wait"
  /\ loc[t].cmd # NoSid => proc[loc[t].cmd] = "exited"
  /\ Goto(t, "st_lock2")
  /\ UNCHANGED <<recVars, loc>>
  /\ UNCHANGED <<playVars, parseVars, auxVars>>

\* script := a.parseRawEvents(session): the script is identified by the session
\* it was parsed from, the parser's input is recorded in parsed
\* Lock(); session, ok := touchRecordData[deviceId]; if !ok { return "no recording
\* data found" }; parse; the three deletes; EventsEmit("touch-record-stopped");
\* return script (deferred Unlock)
StLock2(t) ==
  /\ pc[t] = "st_lock2"
  /\ touchRecordMu = Free
  /\ LET d == dev[t]
         s == touchRecordData[d]
     IN IF s = NoSid
          THEN /\ Return(t, "NoRecordingData", 0)
               /\ UNCHANGED <<mapVars, recEvents, histVars>>
          ELSE /\ parsed' = [parsed EXCEPT ![s] = session[s].RawEvents]
               /\ scriptRes' = [scriptRes EXCEPT ![s] = session[s].Resolution]
               /\ removedSids' = removedSids \cup {s}
               /\ touchRecordCmd' = [touchRecordCmd EXCEPT ![d] = NoSid]
               /\ touchRecordCancel' = [touchRecordCancel EXCEPT ![d] = NoSid]
               /\ touchRecordData' = [touchRecordData EXCEPT ![d] = NoSid]
               /\ recEvents' = [recEvents EXCEPT ![d] =
                                  Append(@, [name |-> "touch-record-stopped", of |-> s])]
               /\ Return(t, "nil", 0)
               /\ UNCHANGED appendLog
  /\ UNCHANGED <<touchRecordMu, session, proc, readerVars, nextSid>>
  /\ UNCHANGED <<playVars, parseVars, auxVars>>

\* ---- IsRecordingTouch, GetRecordingEventCount ------------------------------
CallIsRecordingTouch(t, d) ==
  /\ Call(t, d, "ir_lock")
  /\ UNCHANGED recVars
  /\ UNCHANGED <<playVars, parseVars, auxVars>>

\* Lock(); _, exists := touchRecordCmd[deviceId]; return exists (deferred Unlock)
IrLock(t) ==
  /\ pc[t] = "ir_lock"
  /\ touchRecordMu = Free
  /\ Return(t, IF touchRecordCmd[dev[t]] # NoSid THEN "true" ELSE "false", 0)
  /\ UNCHANGED recVars
  /\ UNCHANGED <<playVars, parseVars, auxVars>>

CallGetRecordingEventCount(t, d) ==
  /\ Call(t, d, "gc_lock")
  /\ UNCHANGED recVars
  /\ UNCHANGED <<playVars, parseVars, auxVars>>

\* if session, ok := touchRecordData[deviceId]; ok { return len(session.RawEvents) }; return 0
EventCount(d) ==
  IF touchRecordData[d] # NoSid THEN Len(session[touchRecordData[d]].RawEvents) ELSE 0

\* Lock(); return the count (deferred Unlock)
GcLock(t) ==
  /\ pc[t] = "gc_lock"
  /\ touchRecordMu = Free
  /\ Return(t, "count", EventCount(dev[t]))
  /\ UNCHANGED recVars
  /\ UNCHANGED <<playVars, parseVars, auxVars>>

\* ---- the getevent process of a session -----------------------------------
\* the process exits: killed after its context was cancelled, or on its own
\* (device unplugged, adb server gone)
ProcExit(s) ==
  /\ proc[s] \in {"running", "cancelled"}
  /\ proc' = [proc EXCEPT ![s] = "exited"]
  /\ UNCHANGED <<touchRecordMu, mapVars, session, readerVars, nextSid, recEvents,
                 histVars, callerVars>>
  /\ UNCHANGED <<playVars, parseVars, auxVars>>

\* lines scanned so far by all readers
RECURSIVE SumTo(_, _)
SumTo(f, n) == IF n = 0 THEN 0 ELSE f[n] + SumTo(f, n - 1)
TotalScanned == SumTo(scanned, MaxSessions)

\* ---- the reader goroutine of a session -----------------------------------
\* for scanner.Scan() { line := scanner.Text(); if strings.Contains(line, "EV_") ...
\* Scan returns lines the process wrote (after the process exited: lines still
\* buffered in the pipe) until one contains "EV_"; a line without it takes the loop
\* back to Scan and changes nothing. A line is <<stream, position among the "EV_"
\* lines of the stream>>.
RScanLine(s) ==
  /\ rpc[s] = "scan"
  /\ TotalScanned < MaxLines
  /\ scanned' = [scanned EXCEPT ![s] = @ + 1]
  /\ rline' = [rline EXCEPT ![s] = <<s, scanned[s] + 1>>]
  /\ rpc' = [rpc EXCEPT ![s] = "lock"]
  /\ UNCHANGED <<touchRecordMu, mapVars, session, proc, nextSid, recEvents,
                 histVars, callerVars>>
  /\ UNCHANGED <<playVars, parseVars, auxVars>>

\* Scan returns false: the stream ended or cmd.Wait closed the pipe
RScanEnd(s) ==
  /\ rpc[s] = "scan"
  /\ proc[s] = "exited"
  /\ rpc' = [rpc EXCEPT ![s] = "done"]
  /\ UNCHANGED <<touchRecordMu, mapVars, session, proc, scanned, rline,
                 nextSid, recEvents, histVars, callerVars>>
  /\ UNCHANGED <<playVars, parseVars, auxVars>>

\* the reader appends to the session it was launched for, whether or not the maps
\* still hold it
ReaderTarget_Captured(s) == s

\* the reader appends to the session stored last, whatever its device
ReaderTarget_Latest(s) ==
  IF \E d \in Devices : touchRecordData[d] # NoSid
    THEN CHOOSE m \in Sids : /\ \E d \in Devices : touchRecordData[d] = m
                             /\ \A d \in Devices : touchRecordData[d] <= m
    ELSE NoSid

\* the session the reader of stream s appends to: touchRecordData[deviceId]
ReaderTarget(s) == touchRecordData[session[s].DeviceID]

\* Lock(); if session, ok := touchRecordData[deviceId]; ok { append }; Unlock()
RLock(s) ==
  /\ rpc[s] = "lock"
  /\ touchRecordMu = Free
  /\ LET target == ReaderTarget(s)
     IN IF target # NoSid
          THEN /\ session' = [session EXCEPT ![target].RawEvents = Append(@, rline[s])]
               /\ appendLog' = [appendLog EXCEPT ![target] = Append(@, rline[s])]
          ELSE UNCHANGED <<session, appendLog>>
  /\ rpc' = [rpc EXCEPT ![s] = "scan"]
  /\ rline' = [rline EXCEPT ![s] = << >>]
  /\ UNCHANGED <<touchRecordMu, mapVars, proc, scanned, nextSid, recEvents, parsed,
                 removedSids, scriptRes, callerVars>>
  /\ UNCHANGED <<playVars, parseVars, auxVars>>

\* ---- the recorder --------------------------------------------------------
\* the steps of the recorder; CD[t] is the set of devices caller t starts and stops
\* recordings on, QD[t] the set of devices it queries, WM what "shell wm size" can do
RecNext(CD, QD, WM) ==
  \/ \E t \in Callers : \E d \in CD[t] : CallStartTouchRecording(t, d)
  \/ \E t \in Callers : SrLock(t)
  \/ \E t \in Callers : SrLocate(t)
  \/ \E t \in Callers : \E wm \in WM : SrResolution(t, wm)
  \/ \E t \in Callers : SrProps(t)
  \/ \E t \in Callers : \E d \in CD[t] : CallStopTouchRecording(t, d)
  \/ \E t \in Callers : StLock1(t)
  \/ \E t \in Callers : StWait(t)
  \/ \E t \in Callers : StLock2(t)
  \/ \E t \in Callers : \E d \in QD[t] : CallIsRecordingTouch(t, d)
  \/ \E t \in Callers : IrLock(t)
  \/ \E t \in Callers : \E d \in QD[t] : CallGetRecordingEventCount(t, d)
  \/ \E t \in Callers : GcLock(t)
  \/ \E s \in Sids : ProcExit(s)
  \/ \E s \in Sids : RScanLine(s)
  \/ \E s \in Sids : RScanEnd(s)
  \/ \E s \in Sids : RLock(s)

\* every caller works on device d1: all calls contend for one device
SameDevice == [t \in Callers |-> {"d1"}]
\* caller c1 works on d1, every other caller on d2
OwnDevice == [t \in Callers |-> IF t = "c1" THEN {"d1"} ELSE {"d2"}]
\* caller c1 queries d1, the other callers issue no query
FirstQueries == [t \in Callers |-> IF t = "c1" THEN {"d1"} ELSE {}]

\* only caller c1 works, on device d1
FirstOnly == [t \in Callers |-> IF t = "c1" THEN {"d1"} ELSE {}]
\* the resolution command prints a size
WmPrintsSize == {"720x1280"}
\* the resolution command fails, prints no size, or prints a size
WmAny == {"fails", "garbage", "720x1280"}

NextRec    == RecNext(SameDevice, SameDevice, WmPrintsSize)
NextRecDev == RecNext(OwnDevice, FirstQueries, WmPrintsSize)
\* one caller, every outcome of the resolution command
NextRecRes == RecNext(FirstOnly, FirstOnly, WmAny)

SpecRec    == Init /\ [][NextRec]_vars
SpecRecDev == Init /\ [][NextRecDev]_vars
SpecRecRes == Init /\ [][NextRecRes]_vars

\* ---- PlayTouchScript -----------------------------------------------------
\* Every critical section of touchPlaybackMu contains no blocking operation, so
\* each is one step and the mutex itself carries no state between steps.

\* the exists check left out
PlayExists_Unchecked(d) == FALSE

\* if _, exists := touchPlaybackCancel[deviceId]; exists
PlayExists(d) == touchPlaybackCancel[d] # NoPid

\* Lock(); if exists { Unlock(); return "playback already in progress" };
\* ctx, cancel := context.WithCancel; touchPlaybackCancel[deviceId] = cancel; Unlock();
\* go func() { ... }()
PlayTouchScript(t, d, sc) ==
  /\ pc[t] = "idle"
  /\ nextPid <= MaxPlays
  /\ IF PlayExists(d)
       THEN /\ ret' = [who |-> t, err |-> "AlreadyPlaying", val |-> 0]
            /\ UNCHANGED <<playVars, pc, dev, loc>>
       ELSE /\ touchPlaybackCancel' = [touchPlaybackCancel EXCEPT ![d] = nextPid]
            /\ play' = [play EXCEPT ![nextPid] = [DeviceID |-> d, Events |-> sc]]
            /\ gpc' = [gpc EXCEPT ![nextPid] = "start"]
            /\ gi' = [gi EXCEPT ![nextPid] = 1]
            /\ nextPid' = nextPid + 1
            /\ loc' = [loc EXCEPT ![t].pid = nextPid]
            /\ pc' = [pc EXCEPT ![t] = "pl_emit"]
            /\ dev' = [dev EXCEPT ![t] = d]
            /\ ret' = NoRet
            /\ UNCHANGED <<ctxDone, issued, progress, playEvents, stopCalled>>
  /\ UNCHANGED <<recVars, parseVars, auxVars>>

\* EventsEmit("touch-playback-started"); return nil
PlEmit(t) ==
  /\ pc[t] = "pl_emit"
  /\ playEvents' = [playEvents EXCEPT ![loc[t].pid] =
                      Append(@, "touch-playback-started")]
  /\ Return(t, "nil", 0)
  /\ UNCHANGED <<parseVars, auxVars>>
  /\ UNCHANGED <<recVars, touchPlaybackCancel, ctxDone, play, gpc, gi, nextPid,
                 issued, progress, stopCalled>>

\* ---- the playback goroutine ------------------------------------------------
\* The goroutine blocks in the pacing select ("sleep"), in RunAdbCommand ("cmd"),
\* in the time.Sleep of a wait event ("wsleep") and in the deferred Lock ("dlock").
\* LoopFrom(p, i) is the <<position, index>> it blocks at next when it reaches the
\* head of iteration i:
\*   for i, event := range script.Events {
\*     select { case <-ctx.Done(): return; default: }
\*     if event.Timestamp > elapsed { select { ... } }
\*     switch event.Type { tap, swipe: RunAdbCommand; wait: time.Sleep; default: continue }
\* a wait event falls through to the command
BuildsCommand_WaitToo(type) == type \in {"tap", "swipe", "wait"}

\* case "tap": cmd = "shell input tap ..."; case "swipe": cmd = "shell input swipe ..."
BuildsCommand(type) == type \in {"tap", "swipe"}

\* After the loop the loop variable is gone: the index of "dlock" is 0.
RECURSIVE LoopFrom(_, _)
LoopFrom(p, i) ==
  IF i > Len(play[p].Events) \/ ctxDone[p]
    THEN <<"dlock", 0>>
    ELSE IF play[p].Events[i].ahead
      THEN <<"sleep", i>>
      ELSE CASE BuildsCommand(play[p].Events[i].Type) -> <<"cmd", i>>
             [] play[p].Events[i].Type = "wait"       -> <<"wsleep", i>>
             [] OTHER                                 -> LoopFrom(p, i + 1)

\* the switch of iteration i, entered when the pacing select was left by its timer
Exec(p, i) ==
  CASE BuildsCommand(play[p].Events[i].Type) -> <<"cmd", i>>
    [] play[p].Events[i].Type = "wait"       -> <<"wsleep", i>>
    [] OTHER                                 -> LoopFrom(p, i + 1)

MoveTo(p, target) ==
  /\ gpc' = [gpc EXCEPT ![p] = target[1]]
  /\ gi' = [gi EXCEPT ![p] = target[2]]

\* the goroutine starts: startTime := time.Now(); total := len(script.Events); first iteration
GStart(p) ==
  /\ gpc[p] = "start"
  /\ MoveTo(p, LoopFrom(p, 1))
  /\ UNCHANGED <<parseVars, auxVars>>
  /\ UNCHANGED <<recVars, callerVars, touchPlaybackCancel, ctxDone, play, nextPid,
                 issued, progress, playEvents, stopCalled>>

\* the pacing select is left by its first case: case <-ctx.Done(): return
GSleepCancelled(p) ==
  /\ gpc[p] = "sleep"
  /\ ctxDone[p]
  /\ MoveTo(p, <<"dlock", 0>>)
  /\ UNCHANGED <<parseVars, auxVars>>
  /\ UNCHANGED <<recVars, callerVars, touchPlaybackCancel, ctxDone, play, nextPid,
                 issued, progress, playEvents, stopCalled>>

\* the pacing select is left by its timer: case <-time.After(sleepDuration):
GSleepTimer(p) ==
  /\ gpc[p] = "sleep"
  /\ MoveTo(p, Exec(p, gi[p]))
  /\ UNCHANGED <<parseVars, auxVars>>
  /\ UNCHANGED <<recVars, callerVars, touchPlaybackCancel, ctxDone, play, nextPid,
                 issued, progress, playEvents, stopCalled>>

\* select { case <-ctx.Done(): return; case <-time.After(sleepDuration): }
GSleep(p) == GSleepCancelled(p) \/ GSleepTimer(p)

\* a failed command ends the playback without a progress notification
GCmd_AbortOnFailure(p) ==
  /\ gpc[p] = "cmd"
  /\ issued' = [issued EXCEPT ![p] = Append(@, <<gi[p], play[p].Events[gi[p]].cmdOk>>)]
  /\ IF play[p].Events[gi[p]].cmdOk
       THEN /\ progress' = [progress EXCEPT ![p] = Append(@, gi[p])]
            /\ MoveTo(p, LoopFrom(p, gi[p] + 1))
       ELSE /\ MoveTo(p, <<"dlock", 0>>)
            /\ UNCHANGED progress
  /\ UNCHANGED <<parseVars, auxVars>>
  /\ UNCHANGED <<recVars, callerVars, touchPlaybackCancel, ctxDone, play, nextPid,
                 playEvents, stopCalled>>

\* _, _ = a.RunAdbCommand(deviceId, cmd) returns; EventsEmit("touch-playback-progress",
\* current: i + 1); next iteration
GCmd(p) ==
  /\ gpc[p] = "cmd"
  /\ issued' = [issued EXCEPT ![p] = Append(@, <<gi[p], play[p].Events[gi[p]].cmdOk>>)]
  /\ progress' = [progress EXCEPT ![p] = Append(@, gi[p])]
  /\ MoveTo(p, LoopFrom(p, gi[p] + 1))
  /\ UNCHANGED <<parseVars, auxVars>>
  /\ UNCHANGED <<recVars, callerVars, touchPlaybackCancel, ctxDone, play, nextPid,
                 playEvents, stopCalled>>

\* time.Sleep(event.Duration) returns; continue
GWait(p) ==
  /\ gpc[p] = "wsleep"
  /\ MoveTo(p, LoopFrom(p, gi[p] + 1))
  /\ UNCHANGED <<parseVars, auxVars>>
  /\ UNCHANGED <<recVars, callerVars, touchPlaybackCancel, ctxDone, play, nextPid,
                 issued, progress, playEvents, stopCalled>>

\* the deferred function emits without deleting the marker
GDeferDelete_KeepMarker(p) ==
  /\ gpc[p] = "dlock"
  /\ gpc' = [gpc EXCEPT ![p] = "demit"]
  /\ UNCHANGED <<parseVars, auxVars>>
  /\ UNCHANGED <<recVars, callerVars, touchPlaybackCancel, ctxDone, play, gi, nextPid,
                 issued, progress, playEvents, stopCalled>>

\* deferred: Lock(); delete(touchPlaybackCancel, deviceId); Unlock()
GDeferDelete(p) ==
  /\ gpc[p] = "dlock"
  /\ touchPlaybackCancel' = [touchPlaybackCancel EXCEPT ![play[p].DeviceID] = NoPid]
  /\ gpc' = [gpc EXCEPT ![p] = "demit"]
  /\ UNCHANGED <<parseVars, auxVars>>
  /\ UNCHANGED <<recVars, callerVars, ctxDone, play, gi, nextPid, issued,
                 progress, playEvents, stopCalled>>

\* deferred: EventsEmit("touch-playback-completed"); the goroutine ends
GDeferEmit(p) ==
  /\ gpc[p] = "demit"
  /\ playEvents' = [playEvents EXCEPT ![p] =
                      Append(@, "touch-playback-completed")]
  /\ gpc' = [gpc EXCEPT ![p] = "done"]
  /\ UNCHANGED <<parseVars, auxVars>>
  /\ UNCHANGED <<recVars, callerVars, touchPlaybackCancel, ctxDone, play, gi, nextPid,
                 issued, progress, stopCalled>>

Player(p) == GStart(p) \/ GSleep(p) \/ GCmd(p) \/ GWait(p) \/ GDeferDelete(p) \/ GDeferEmit(p)

\* ---- StopTouchPlayback, IsPlayingTouch -----------------------------------
\* the playback goroutine p is running its event loop
Running(p) == gpc[p] \in {"start", "sleep", "cmd", "wsleep"}

\* Lock(); if cancel, exists := touchPlaybackCancel[deviceId]; exists { cancel();
\* delete(touchPlaybackCancel, deviceId) }; Unlock()
\* The call is this one critical section; it returns nothing.
StopTouchPlayback(t, d) ==
  /\ pc[t] = "idle"
  /\ LET m == touchPlaybackCancel[d]
     IN IF m # NoPid
          THEN /\ ctxDone' = [ctxDone EXCEPT ![m] = TRUE]
               /\ touchPlaybackCancel' = [touchPlaybackCancel EXCEPT ![d] = NoPid]
          ELSE UNCHANGED <<ctxDone, touchPlaybackCancel>>
  /\ stopCalled' = [p \in Pids |->
                      stopCalled[p] \/ (play[p].DeviceID = d /\ Running(p))]
  /\ ret' = NoRet
  /\ UNCHANGED <<parseVars, auxVars>>
  /\ UNCHANGED <<recVars, play, gpc, gi, nextPid, issued, progress, playEvents,
                 pc, dev, loc>>

\* Lock(); _, exists := touchPlaybackCancel[deviceId]; return exists
\* The call is this one critical section.
IsPlayingTouch(t, d) ==
  /\ pc[t] = "idle"
  /\ ret' = [who |-> t,
             err |-> IF touchPlaybackCancel[d] # NoPid THEN "true" ELSE "false",
             val |-> 0]
  /\ UNCHANGED <<parseVars, auxVars>>
  /\ UNCHANGED <<recVars, playVars, pc, dev, loc>>

\* ---- the player ----------------------------------------------------------
\* the steps of the player; CD[t] is the set of devices caller t plays and stops on
PlayNext(CD) ==
  \/ \E t \in Callers : \E d \in CD[t], sc \in Scripts : PlayTouchScript(t, d, sc)
  \/ \E t \in Callers : PlEmit(t)
  \/ \E t \in Callers : \E d \in CD[t] : StopTouchPlayback(t, d)
  \/ \E t \in Callers : \E d \in CD[t] : IsPlayingTouch(t, d)
  \/ \E p \in Pids : GStart(p)
  \/ \E p \in Pids : GSleep(p)
  \/ \E p \in Pids : GCmd(p)
  \/ \E p \in Pids : GWait(p)
  \/ \E p \in Pids : GDeferDelete(p)
  \/ \E p \in Pids : GDeferEmit(p)

NextPlay == PlayNext(SameDevice)

SpecPlay == Init /\ [][NextPlay]_vars

\* every goroutine that can take a step eventually takes one
SpecPlayFair == SpecPlay /\ \A p \in Pids : WF_vars(Player(p))

\* ---- parseRawEvents --------------------------------------------------------
\* A session handed to the parser is [Resolution, MinX, MaxX, MinY, MaxY, RawEvents].
\* Resolution is the sequence of the parts strings.Split(Resolution, "x") yields,
\* each part either a decimal number or not. A raw line is
\* [m, ts, evType, evCode, evValue]: m is whether the regular expression matches
\* it, ts its timestamp in microseconds (the six decimals getevent prints), evValue
\* the fourth group: DOWN, UP or a hexadecimal number held as two 16-bit halves
\* (wide: more than 32 bits). Float arithmetic is exact at these magnitudes.
Num(n)   == [num |-> TRUE, val |-> n]
NotNum   == [num |-> FALSE, val |-> 0]
Hex(n)   == [kind |-> "hex", hi |-> 0, lo |-> n, wide |-> FALSE]
\* the 32-bit two's complement of -n, 0 < n <= 65536: ffffffff is HexNeg(1)
HexNeg(n) == [kind |-> "hex", hi |-> 65535, lo |-> 65536 - n, wide |-> FALSE]
HexWide  == [kind |-> "hex", hi |-> 0, lo |-> 0, wide |-> TRUE]
Word(w)  == [kind |-> w, hi |-> 0, lo |-> 0, wide |-> FALSE]
RawLine(ts, evType, evCode, evValue) ==
  [m |-> TRUE, ts |-> ts, evType |-> evType, evCode |-> evCode, evValue |-> evValue]
\* a line the regular expression does not match
Garbage == [m |-> FALSE, ts |-> 0, evType |-> "", evCode |-> "", evValue |-> Word("")]

\* screenW, _ = strconv.Atoi(parts[0]): 0 when the part is not a number
Atoi(part) == IF part.num THEN part.val ELSE 0

\* var screenW, screenH int = 1080, 1920; if parts := strings.Split(...); len(parts) == 2 {...}
ScreenOf(res) == IF Len(res) = 2 THEN <<Atoi(res[1]), Atoi(res[2])>> ELSE <<1080, 1920>>

\* the detected range is kept also when max == min
EffRange_NoFallback(min, max, dim) == <<min, max>>

\* if maxX == minX { maxX = screenW; minX = 0 }
EffRange(min, max, dim) == IF max = min THEN <<0, dim>> ELSE <<min, max>>

\* the locals of parseRawEvents when it enters the loop over the raw lines
InitLocals(se) ==
  LET screen == ScreenOf(se.Resolution)
      rx == EffRange(se.MinX, se.MaxX, screen[1])
      ry == EffRange(se.MinY, se.MaxY, screen[2])
  IN [screenW |-> screen[1], screenH |-> screen[2],
      minX |-> rx[1], maxX |-> rx[2], minY |-> ry[1], maxY |-> ry[2],
      firstTimestamp |-> -1, currentX |-> -1, currentY |-> -1,
      touchStartTime |-> -1, touchStartX |-> -1, touchStartY |-> -1,
      tracking |-> FALSE]

\* if evValue == "DOWN" { evValue = "00000001" } else if evValue == "UP" { "00000000" };
\* strconv.ParseUint(evValue, 16, 32) fails for a number of more than 32 bits
ParseOk(v) == v.kind \in {"DOWN", "UP"} \/ ~v.wide

\* value := int32(uValue): the 32 bits read as two's complement
Value32(v) ==
  CASE v.kind = "DOWN" -> 1
    [] v.kind = "UP"   -> 0
    [] OTHER -> IF v.hi >= 32768 THEN (v.hi - 65536) * 65536 + v.lo
                                 ELSE v.hi * 65536 + v.lo

\* Go's conversion of a float to an integer: truncation toward zero
TruncDiv(a, b) == IF a >= 0 THEN a \div b ELSE -((-a) \div b)

\* int64((timestamp - firstTimestamp) * 1000), int((timestamp - touchStartTime) * 1000)
Millis(us) == TruncDiv(us, 1000)

\* round(num / den) with round := func(val float64) int { return int(val + 0.5) }
Round(num, den) == TruncDiv(2 * num + den, 2 * den)

\* the offset of the range is not subtracted
ScaleCoord_NoOffset(raw, min, max, dim) ==
  IF max > min THEN Round(raw * dim, max - min) ELSE raw

\* if maxX > minX { round(float64(raw-minX) * float64(screenW) / width) } else { raw }
ScaleCoord(raw, min, max, dim) ==
  IF max > min THEN Round((raw - min) * dim, max - min) ELSE raw

\* the divisor of the division ScaleCoord performs, if it performs one
ScaleDivisors(min, max) == IF max > min THEN {max - min} ELSE {}

\* the thresholds are inclusive
IsTap_Inclusive(distance, duration) == distance <= 2500 /\ duration <= 300

\* if distance < 2500 && duration < 300
IsTap(distance, duration) == distance < 2500 /\ duration < 300

NoOut(l) == [loc |-> l, out |-> << >>]

\* finger down, either case: tracking = true; touchStartTime = timestamp;
\* touchStartX = -1; touchStartY = -1
FingerDown(l, ts) ==
  NoOut([l EXCEPT !.tracking = TRUE, !.touchStartTime = ts,
                  !.touchStartX = -1, !.touchStartY = -1])

\* case "ABS_MT_TRACKING_ID", value == -1 && tracking: the stroke ends. The result
\* is the locals and the event appended, if any, with the raw and scaled endpoints
\* and the divisors it was computed from.
TrackingIdUp(l, ts, relativeMs) ==
  LET duration == Millis(ts - l.touchStartTime)
      touchStartX == IF l.touchStartX = -1 THEN l.currentX ELSE l.touchStartX
      touchStartY == IF l.touchStartY = -1 THEN l.currentY ELSE l.touchStartY
      l2 == [l EXCEPT !.tracking = FALSE, !.touchStartX = touchStartX,
                      !.touchStartY = touchStartY]
      scaledStartX == ScaleCoord(touchStartX, l.minX, l.maxX, l.screenW)
      scaledEndX   == ScaleCoord(l.currentX, l.minX, l.maxX, l.screenW)
      scaledStartY == ScaleCoord(touchStartY, l.minY, l.maxY, l.screenH)
      scaledEndY   == ScaleCoord(l.currentY, l.minY, l.maxY, l.screenH)
      dx == scaledEndX - scaledStartX
      dy == scaledEndY - scaledStartY
      distance == dx * dx + dy * dy
      event == IF IsTap(distance, duration)
                 THEN [Timestamp |-> relativeMs, Type |-> "tap",
                       X |-> scaledStartX, Y |-> scaledStartY,
                       X2 |-> 0, Y2 |-> 0, Duration |-> 0]
                 ELSE [Timestamp |-> relativeMs, Type |-> "swipe",
                       X |-> scaledStartX, Y |-> scaledStartY,
                       X2 |-> scaledEndX, Y2 |-> scaledEndY, Duration |-> duration]
      stroke == [rawStart |-> <<touchStartX, touchStartY>>,
                 rawEnd |-> <<l.currentX, l.currentY>>,
                 scaledStart |-> <<scaledStartX, scaledStartY>>,
                 scaledEnd |-> <<scaledEndX, scaledEndY>>,
                 duration |-> duration,
                 divisors |-> ScaleDivisors(l.minX, l.maxX) \cup ScaleDivisors(l.minY, l.maxY)]
  IN IF touchStartX = -1 \/ touchStartY = -1 \/ l.currentX = -1 \/ l.currentY = -1
       THEN NoOut(l2)
       ELSE [loc |-> l2, out |-> <<[event |-> event, stroke |-> stroke]>>]

\* case "BTN_TOUCH", value == 0 && tracking: the stroke ends (the code repeats the
\* scaling and the event creation of the tracking-id case)
BtnTouchUp(l, ts, relativeMs) ==
  LET duration == Millis(ts - l.touchStartTime)
      touchStartX == IF l.touchStartX = -1 THEN l.currentX ELSE l.touchStartX
      touchStartY == IF l.touchStartY = -1 THEN l.currentY ELSE l.touchStartY
      l2 == [l EXCEPT !.tracking = FALSE, !.touchStartX = touchStartX,
                      !.touchStartY = touchStartY]
      scaledStartX == ScaleCoord(touchStartX, l.minX, l.maxX, l.screenW)
      scaledEndX   == ScaleCoord(l.currentX, l.minX, l.maxX, l.screenW)
      scaledStartY == ScaleCoord(touchStartY, l.minY, l.maxY, l.screenH)
      scaledEndY   == ScaleCoord(l.currentY, l.minY, l.maxY, l.screenH)
      dx == scaledEndX - scaledStartX
      dy == scaledEndY - scaledStartY
      distance == dx * dx + dy * dy
      event == IF IsTap(distance, duration)
                 THEN [Timestamp |-> relativeMs, Type |-> "tap",
                       X |-> scaledStartX, Y |-> scaledStartY,
                       X2 |-> 0, Y2 |-> 0, Duration |-> 0]
                 ELSE [Timestamp |-> relativeMs, Type |-> "swipe",
                       X |-> scaledStartX, Y |-> scaledStartY,
                       X2 |-> scaledEndX, Y2 |-> scaledEndY, Duration |-> duration]
      stroke == [rawStart |-> <<touchStartX, touchStartY>>,
                 rawEnd |-> <<l.currentX, l.currentY>>,
                 scaledStart |-> <<scaledStartX, scaledStartY>>,
                 scaledEnd |-> <<scaledEndX, scaledEndY>>,
                 duration |-> duration,
                 divisors |-> ScaleDivisors(l.minX, l.maxX) \cup ScaleDivisors(l.minY, l.maxY)]
  IN IF touchStartX = -1 \/ touchStartY = -1 \/ l.currentX = -1 \/ l.currentY = -1
       THEN NoOut(l2)
       ELSE [loc |-> l2, out |-> <<[event |-> event, stroke |-> stroke]>>]

\* the switch on evCode inside if evType == "EV_ABS"
AbsCase(l, line, relativeMs) ==
  LET value == Value32(line.evValue)
  IN CASE line.evCode = "ABS_MT_TRACKING_ID" ->
            IF value # -1 /\ ~l.tracking THEN FingerDown(l, line.ts)
            ELSE IF value = -1 /\ l.tracking THEN TrackingIdUp(l, line.ts, relativeMs)
            ELSE NoOut(l)
       [] line.evCode = "BTN_TOUCH" ->
            IF value = 1 /\ ~l.tracking THEN FingerDown(l, line.ts)
            ELSE IF value = 0 /\ l.tracking THEN BtnTouchUp(l, line.ts, relativeMs)
            ELSE NoOut(l)
       [] line.evCode = "ABS_MT_POSITION_X" ->
            NoOut([l EXCEPT !.currentX = value,
                            !.touchStartX = IF l.tracking /\ @ = -1 THEN value ELSE @])
       [] line.evCode = "ABS_MT_POSITION_Y" ->
            NoOut([l EXCEPT !.currentY = value,
                            !.touchStartY = IF l.tracking /\ @ = -1 THEN value ELSE @])
       [] OTHER -> NoOut(l)

\* every matched line is taken as the first one: firstTimestamp = timestamp
LineStep_FirstIsCurrent(l, line) ==
  IF ~line.m
    THEN NoOut(l)
    ELSE LET l1 == [l EXCEPT !.firstTimestamp = line.ts]
         IN IF line.evType = "EV_ABS" /\ ParseOk(line.evValue)
              THEN AbsCase(l1, line, 0)
              ELSE NoOut(l1)

\* the category of the line is not looked at
LineStep_AnyCategory(l, line) ==
  IF ~line.m
    THEN NoOut(l)
    ELSE LET first == IF l.firstTimestamp < 0 THEN line.ts ELSE l.firstTimestamp
             l1 == [l EXCEPT !.firstTimestamp = first]
             relativeMs == Millis(line.ts - first)
         IN IF ParseOk(line.evValue)
              THEN AbsCase(l1, line, relativeMs)
              ELSE NoOut(l1)

\* one iteration of for _, line := range session.RawEvents
LineStep(l, line) ==
  IF ~line.m
    THEN NoOut(l)
    ELSE LET first == IF l.firstTimestamp < 0 THEN line.ts ELSE l.firstTimestamp
             l1 == [l EXCEPT !.firstTimestamp = first]
             relativeMs == Millis(line.ts - first)
         IN IF line.evType = "EV_ABS" /\ ParseOk(line.evValue)
              THEN AbsCase(l1, line, relativeMs)
              ELSE NoOut(l1)

\* the events parseRawEvents returns for the lines from index i on, from locals l
RECURSIVE ParseFrom(_, _, _)
ParseFrom(l, lines, i) ==
  IF i > Len(lines)
    THEN << >>
    ELSE LET r == LineStep(l, lines[i])
         IN [k \in 1..Len(r.out) |-> r.out[k].event] \o ParseFrom(r.loc, lines, i + 1)

\* script.Events of parseRawEvents(session)
ParseResult(se) ==
  IF Len(se.RawEvents) = 0 THEN << >> ELSE ParseFrom(InitLocals(se), se.RawEvents, 1)

\* ---- the sessions parsed ---------------------------------------------------
Range(minX, maxX, minY, maxY) == [MinX |-> minX, MaxX |-> maxX, MinY |-> minY, MaxY |-> maxY]
\* resolution strings (as their parts) and detected ranges: scaling by 1 and by
\* 1/2, equal bounds, inverted bounds with a three-part resolution, a zero
\* dimension, the empty resolution with a range that does not start at 0, and a
\* resolution that is not a number
Geometries ==
  { [Resolution |-> <<Num(1000), Num(1000)>>, R |-> Range(0, 1000, 0, 1000)],
    [Resolution |-> <<Num(500), Num(500)>>,   R |-> Range(0, 1000, 0, 1000)],
    [Resolution |-> <<Num(500), Num(500)>>,   R |-> Range(0, 0, 7, 7)],
    [Resolution |-> <<Num(1), Num(2), Num(3)>>, R |-> Range(1000, 0, 1000, 0)],
    [Resolution |-> <<Num(0), Num(500)>>,     R |-> Range(0, 0, 0, 1000)],
    [Resolution |-> <<NotNum>>,               R |-> Range(150, 1000, 150, 1000)],
    [Resolution |-> <<NotNum, NotNum>>,       R |-> Range(0, 1000, 0, 0)] }

DownTime == 1000000     \* timestamp of the first touch-down, microseconds
StrokeGap == 400000     \* from one touch-down to the next

\* the lines that delimit a stroke: multi-touch protocol ("trk"), BTN_TOUCH as
\* getevent -l prints it, in the key category ("key"), and BTN_TOUCH in the
\* absolute-axis category ("btn")
DownLine(kind, ts) ==
  CASE kind = "trk" -> RawLine(ts, "EV_ABS", "ABS_MT_TRACKING_ID", Hex(5))
    [] kind = "btn" -> RawLine(ts, "EV_ABS", "BTN_TOUCH", Word("DOWN"))
    [] kind = "key" -> RawLine(ts, "EV_KEY", "BTN_TOUCH", Word("DOWN"))
UpLine(kind, ts) ==
  CASE kind = "trk" -> RawLine(ts, "EV_ABS", "ABS_MT_TRACKING_ID", HexNeg(1))
    [] kind = "btn" -> RawLine(ts, "EV_ABS", "BTN_TOUCH", Word("UP"))
    [] kind = "key" -> RawLine(ts, "EV_KEY", "BTN_TOUCH", Word("UP"))
PosLines(pt, ts) ==
  <<RawLine(ts, "EV_ABS", "ABS_MT_POSITION_X", pt[1]),
    RawLine(ts, "EV_ABS", "ABS_MT_POSITION_Y", pt[2])>>

\* a stroke is [pts, dur]: the positions reported (none, the start, or the start
\* and the end) and the time from touch-down to touch-up in microseconds
StrokeLines(kind, st, t0) ==
  <<DownLine(kind, t0)>>
    \o (IF Len(st.pts) >= 1 THEN PosLines(st.pts[1], t0) ELSE << >>)
    \o (IF Len(st.pts) >= 2 THEN PosLines(st.pts[2], t0 + st.dur) ELSE << >>)
    \o <<UpLine(kind, t0 + st.dur)>>

StartPts == { <<Hex(100), Hex(100)>>, <<Hex(0), Hex(0)>>, <<Hex(150), Hex(150)>>,
              <<HexNeg(1), Hex(100)>>, <<HexNeg(50), Hex(100)>> }
EndPts   == { <<Hex(149), Hex(100)>>, <<Hex(150), Hex(100)>>, <<Hex(150), Hex(101)>>,
              <<Hex(1000), Hex(1000)>>, <<Hex(2000), Hex(100)>> }
Durations == {50000, 299999, 300000, 301000}
Strokes ==
  {[pts |-> << >>, dur |-> d] : d \in Durations}
    \cup {[pts |-> <<s>>, dur |-> d] : s \in StartPts, d \in Durations}
    \cup {[pts |-> <<s, e>>, dur |-> d] : s \in StartPts, e \in EndPts, d \in Durations}
\* the strokes of an input of more than one stroke
FollowStrokes ==
  { [pts |-> << >>, dur |-> 50000],
    [pts |-> <<(<<Hex(100), Hex(100)>>)>>, dur |-> 50000],
    [pts |-> <<(<<Hex(0), Hex(0)>>), (<<Hex(1000), Hex(1000)>>)>>, dur |-> 300000] }
\* what precedes the first stroke: nothing, a line that does not match, a
\* SYN_REPORT line 50 ms earlier, an EV_ABS line whose value does not fit 32 bits
Leads ==
  { << >>, <<Garbage>>,
    <<RawLine(DownTime - 50000, "EV_SYN", "SYN_REPORT", Hex(0))>>,
    <<RawLine(DownTime - 50000, "EV_ABS", "ABS_MT_TOUCH_MAJOR", HexWide)>> }

\* the follow-up strokes of an input: up to n of them, the k-th starting
\* k * StrokeGap after the first touch-down
RECURSIVE Follow(_, _, _)
Follow(kind, n, k) ==
  IF n = 0
    THEN {<< >>}
    ELSE {<< >>} \cup
         {StrokeLines(kind, f, DownTime + k * StrokeGap) \o rest :
            f \in FollowStrokes, rest \in Follow(kind, n - 1, k + 1)}

\* the raw lines of the sessions parsed: no line at all, or a lead and one stroke,
\* or a lead and up to MaxStrokes of the strokes FollowStrokes, all delimited the
\* same way
InputsOf(kind) ==
  {lead \o StrokeLines(kind, st, DownTime) : lead \in Leads, st \in Strokes}
    \cup {lead \o StrokeLines(kind, st, DownTime) \o more :
            lead \in Leads, st \in FollowStrokes, more \in Follow(kind, MaxStrokes - 1, 1)}
\* lines a stroke can carry between its position reports: a line that does not
\* match, a sync line, BTN_TOUCH lines of the key category, and absolute-axis
\* lines whose value does not fit 32 bits
Noise(ts) ==
  { Garbage,
    RawLine(ts, "EV_SYN", "SYN_REPORT", Hex(0)),
    RawLine(ts, "EV_KEY", "BTN_TOUCH", Word("DOWN")),
    RawLine(ts, "EV_KEY", "BTN_TOUCH", Word("UP")),
    RawLine(ts, "EV_KEY", "ABS_MT_TRACKING_ID", HexNeg(1)),
    RawLine(ts, "EV_ABS", "ABS_MT_TRACKING_ID", HexWide),
    RawLine(ts, "EV_ABS", "ABS_MT_POSITION_X", HexWide) }
\* a swipe with one of these lines after its first position report, and a
\* sync line before the touch-down that fixes the first timestamp
NoisyInputs ==
  { lead \o <<DownLine("trk", DownTime)>> \o PosLines(<<Hex(100), Hex(100)>>, DownTime)
      \o <<n>> \o PosLines(<<Hex(1000), Hex(1000)>>, DownTime + 300000)
      \o <<UpLine("trk", DownTime + 300000)>> :
      lead \in {<< >>, <<RawLine(DownTime - 50000, "EV_SYN", "SYN_REPORT", Hex(0))>>},
      n \in Noise(DownTime + 100000) }
RawInputs ==
  {<< >>} \cup UNION {InputsOf(kind) : kind \in {"trk", "btn", "key"}} \cup NoisyInputs

\* parseRawEvents(session) is entered, for a session of one of the geometries with
\* one of the raw inputs; it runs to the head of the loop. With no raw line it
\* returns the script with no event at once.
ParseBegin ==
  /\ ppc = "idle"
  /\ \E g \in Geometries, raw \in RawInputs :
       /\ psession' = [Resolution |-> g.Resolution, MinX |-> g.R.MinX, MaxX |-> g.R.MaxX,
                       MinY |-> g.R.MinY, MaxY |-> g.R.MaxY, RawEvents |-> raw]
       /\ IF Len(raw) = 0
            THEN /\ ppc' = "returned"
                 /\ UNCHANGED ploc
            ELSE /\ ppc' = "loop"
                 /\ ploc' = InitLocals(psession')
  /\ pevents' = << >>
  /\ pstrokes' = << >>
  /\ pidx' = 0
  /\ UNCHANGED <<recVars, playVars, callerVars, auxVars>>

\* one iteration of the loop over session.RawEvents
ParseLine ==
  /\ ppc = "loop"
  /\ pidx < Len(psession.RawEvents)
  /\ LET r == LineStep(ploc, psession.RawEvents[pidx + 1])
     IN /\ ploc' = r.loc
        /\ pevents' = pevents \o [k \in 1..Len(r.out) |-> r.out[k].event]
        /\ pstrokes' = pstrokes \o [k \in 1..Len(r.out) |-> r.out[k].stroke]
  /\ pidx' = pidx + 1
  /\ UNCHANGED <<psession, ppc>>
  /\ UNCHANGED <<recVars, playVars, callerVars, auxVars>>

\* the loop is over: return script
ParseReturn ==
  /\ ppc = "loop"
  /\ pidx = Len(psession.RawEvents)
  /\ ppc' = "returned"
  /\ UNCHANGED <<psession, pidx, ploc, pevents, pstrokes>>
  /\ UNCHANGED <<recVars, playVars, callerVars, auxVars>>

NextParse ==
  \/ ParseBegin
  \/ ParseLine
  \/ ParseReturn

SpecParse == Init /\ [][NextParse]_vars

\* ==== selector engine =====================================================
\* A Go string is the sequence of its characters, each a one-character string,
\* so that equality, substring, prefix, suffix and lower-casing are computed
\* and not assumed.
\* strings.ToLower, for strings of ASCII letters
ToLower(s) ==
  LET Upper == <<"A", "B", "C", "D", "E", "F", "G", "H", "I", "J", "K", "L", "M",
                 "N", "O", "P", "Q", "R", "S", "T", "U", "V", "W", "X", "Y", "Z">>
      Lower == <<"a", "b", "c", "d", "e", "f", "g", "h", "i", "j", "k", "l", "m",
                 "n", "o", "p", "q", "r", "s", "t", "u", "v", "w", "x", "y", "z">>
      LowerChar(c) ==
        IF \E i \in 1..Len(Upper) : Upper[i] = c
          THEN Lower[CHOOSE i \in 1..Len(Upper) : Upper[i] = c]
          ELSE c
  IN [i \in 1..Len(s) |-> LowerChar(s[i])]
\* s[from:to] of Go, 0-based, to exclusive; s[from:] is Slice(s, from, Len(s))
Slice(s, from, to) == SubSeq(s, from + 1, to)
\* strings.Index(s, sub): the 0-based position of the first occurrence, or -1
StrIndex(s, sub) ==
  LET OccursAt(i) == i + Len(sub) <= Len(s) /\ Slice(s, i, i + Len(sub)) = sub
  IN IF \E i \in 0..Len(s) : OccursAt(i)
       THEN CHOOSE i \in 0..Len(s) : OccursAt(i) /\ \A j \in 0..(i - 1) : ~OccursAt(j)
       ELSE -1
StrContains(s, sub) == StrIndex(s, sub) # -1
HasPrefix(s, pre) == Len(pre) <= Len(s) /\ Slice(s, 0, Len(pre)) = pre
HasSuffix(s, suf) == Len(suf) <= Len(s) /\ Slice(s, Len(s) - Len(suf), Len(s)) = suf
\* strings.TrimSpace, for strings whose only white space is the blank
TrimSpace(s) ==
  LET RECURSIVE TrimLeft(_)
      TrimLeft(t) == IF Len(t) > 0 /\ t[1] = " " THEN TrimLeft(Tail(t)) ELSE t
      RECURSIVE TrimRight(_)
      TrimRight(t) ==
        IF Len(t) > 0 /\ t[Len(t)] = " " THEN TrimRight(SubSeq(t, 1, Len(t) - 1)) ELSE t
  IN TrimRight(TrimLeft(s))

\* the literals of the model
sOK      == <<"O", "K">>
sSubmit  == <<"S", "u", "b", "m", "i", "t">>
sLogin   == <<"L", "o", "g", "i", "n">>
sLogOut  == <<"L", "o", "g", " ", "o", "u", "t">>
sCancel  == <<"C", "a", "n", "c", "e", "l">>
sLog     == <<"L", "o", "g">>
sOkId    == <<"o", "k">>
sIdInfix == <<":", "i", "d", "/">>
sAppOk   == <<"a">> \o sIdInfix \o sOkId
sAppNok  == <<"a">> \o sIdInfix \o <<"n">> \o sOkId
sButton  == <<"w", ".", "B", "u", "t", "t", "o", "n">>
sTextV   == <<"w", ".", "T", "e", "x", "t">>
sB1      == <<"[", "0", ",", "0", "]", "[", "1", ",", "1", "]">>
sB2      == <<"[", "1", ",", "1", "]", "[", "2", ",", "2", "]">>
sB3      == <<"[", "2", ",", "2", "]", "[", "3", ",", "3", "]">>
sTrue    == <<"t", "r", "u", "e">>
sFalse   == <<"f", "a", "l", "s", "e">>

\* UINode: the attributes the selector engine reads, and the children. ptr is
\* the identity of the node (in Go its address): the path from the root for a
\* node of the tree.
Attrs(text, id, desc, class, bounds, clickable) ==
  [Text |-> text, ResourceID |-> id, ContentDesc |-> desc, Class |-> class,
   Bounds |-> bounds, Clickable |-> clickable]
NodeKinds ==
  { Attrs(sOK, sAppOk, << >>, sButton, sB1, sTrue),
    Attrs(sOK, << >>, sOK, sButton, sB2, sFalse),
    Attrs(sSubmit, sAppNok, << >>, sButton, sB2, sTrue),
    Attrs(sLogin, sOkId, sLogOut, sTextV, sB1, sTrue),
    Attrs(sCancel, << >>, << >>, << >>, sB3, sFalse),
    Attrs(<< >>, << >>, << >>, << >>, << >>, sFalse) }
InnerKinds ==
  { Attrs(sOK, sAppOk, << >>, sButton, sB1, sTrue),
    Attrs(<< >>, << >>, sSubmit, << >>, << >>, sFalse) }
MkNode(k, p, kids) ==
  [ptr |-> p, Text |-> k.Text, ResourceID |-> k.ResourceID,
   ContentDesc |-> k.ContentDesc, Class |-> k.Class, Bounds |-> k.Bounds,
   Clickable |-> k.Clickable, Nodes |-> kids]
\* the sequences of n children of the root; the first child has no child or one.
\* The root and the grandchild are of one of InnerKinds.
Digit == <<"1", "2", "3", "4">>
KidSeqs(n) ==
  { [i \in 1..n |-> MkNode(ks[i], <<Digit[i]>>, IF i = 1 THEN sub ELSE << >>)] :
      ks \in [1..n -> NodeKinds],
      sub \in {<< >>} \cup {<<MkNode(g, <<"1", "1">>, << >>)>> : g \in InnerKinds} }
Trees ==
  { MkNode(k, << >>, << >>) : k \in InnerKinds }
    \cup UNION { { MkNode(k, << >>, kids) : k \in InnerKinds, kids \in KidSeqs(n) } :
                 n \in 1..MaxKids }

\* what a function returning *UINode does: a node, nil, or a run-time panic
\* (an index outside the slice)
Panic     == [kind |-> "panic"]
Some(n)   == [kind |-> "node", node |-> n]
Selector(type, value, index) == [Type |-> type, Value |-> value, Index |-> index]

\* the predicate closures handed to collectMatchingNodes, as the pair of what
\* they test and the value they captured
Pred(test, value) == [test |-> test, value |-> value]

\* ---- advanced queries ----
sepOR  == <<" ", "O", "R", " ">>
sepAND == <<" ", "A", "N", "D", " ">>
\* the loop of splitAdvancedQuery from position start
RECURSIVE SplitFrom(_, _, _, _)
SplitFrom(query, lowerQuery, lowerSep, start) ==
  LET idx == StrIndex(Slice(lowerQuery, start, Len(lowerQuery)), lowerSep)
  IN IF idx = -1
       THEN <<TrimSpace(Slice(query, start, Len(query)))>>
       ELSE <<TrimSpace(Slice(query, start, start + idx))>>
              \o SplitFrom(query, lowerQuery, lowerSep, start + idx + Len(lowerSep))
splitAdvancedQuery(query, sep) == SplitFrom(query, ToLower(query), ToLower(sep), 0)

\* the attribute of a node an advanced condition names
aText      == <<"t", "e", "x", "t">>
aId        == <<"i", "d">>
aDesc      == <<"d", "e", "s", "c">>
aClass     == <<"c", "l", "a", "s", "s">>
aBounds    == <<"b", "o", "u", "n", "d", "s">>
aClickable == <<"c", "l", "i", "c", "k", "a", "b", "l", "e">>
getNodeAttribute(node, attr) ==
  CASE attr = aText      -> node.Text
    [] attr = aId        -> node.ResourceID
    [] attr = aDesc      -> node.ContentDesc
    [] attr = aClass     -> node.Class
    [] attr = aBounds    -> node.Bounds
    [] attr = aClickable -> node.Clickable
    [] OTHER             -> << >>

\* k is the first of the operators ~ ^ $ = : , in this order, that occurs in
\* the condition, or 0 when none does
evaluateAdvancedCondition(node, condition0) ==
  LET condition == TrimSpace(condition0)
      Operators == <<"~", "^", "$", "=", ":">>
      k     == IF \E o \in 1..Len(Operators) : StrContains(condition, <<Operators[o]>>)
                 THEN CHOOSE o \in 1..Len(Operators) :
                        /\ StrContains(condition, <<Operators[o]>>)
                        /\ \A j \in 1..(o - 1) : ~StrContains(condition, <<Operators[j]>>)
                 ELSE 0
      idx   == IF k = 0 THEN -1 ELSE StrIndex(condition, <<Operators[k]>>)
      attr  == IF k = 0 THEN << >> ELSE TrimSpace(Slice(condition, 0, idx))
      op    == IF k = 0 THEN "" ELSE Operators[k]
      value == IF k = 0 THEN << >> ELSE TrimSpace(Slice(condition, idx + 1, Len(condition)))
      lowerCond      == ToLower(condition)
      lowerAttrValue == ToLower(getNodeAttribute(node, attr))
      lowerValue     == ToLower(value)
  IN IF attr = << >>
       THEN \/ StrContains(ToLower(node.Text), lowerCond)
            \/ StrContains(ToLower(node.ContentDesc), lowerCond)
            \/ StrContains(ToLower(node.ResourceID), lowerCond)
       ELSE CASE op = "="            -> lowerAttrValue = lowerValue
              [] op \in {":", "~"}   -> StrContains(lowerAttrValue, lowerValue)
              [] op = "^"            -> HasPrefix(lowerAttrValue, lowerValue)
              [] op = "$"            -> HasSuffix(lowerAttrValue, lowerValue)
              [] OTHER               -> FALSE

RECURSIVE matchAdvancedQuery(_, _)
matchAdvancedQuery_AndFirst(node, query0) ==
  LET query    == TrimSpace(query0)
      orParts  == splitAdvancedQuery(query, sepOR)
      andParts == splitAdvancedQuery(query, sepAND)
  IN IF query = << >> THEN FALSE
     ELSE IF Len(andParts) > 1
       THEN \A i \in 1..Len(andParts) : matchAdvancedQuery(node, andParts[i])
     ELSE IF Len(orParts) > 1
       THEN \E i \in 1..Len(orParts) : matchAdvancedQuery(node, orParts[i])
     ELSE evaluateAdvancedCondition(node, query)
matchAdvancedQuery(node, query0) ==
  LET query    == TrimSpace(query0)
      orParts  == splitAdvancedQuery(query, sepOR)
      andParts == splitAdvancedQuery(query, sepAND)
  IN IF query = << >> THEN FALSE
     ELSE IF Len(orParts) > 1
       THEN \E i \in 1..Len(orParts) : matchAdvancedQuery(node, orParts[i])
     ELSE IF Len(andParts) > 1
       THEN \A i \in 1..Len(andParts) : matchAdvancedQuery(node, andParts[i])
     ELSE evaluateAdvancedCondition(node, query)

\* ---- finding ----
\* the closure bodies of FindAllElementsBySelector and of the findElementBy*
ApplyPred(predicate, n) ==
  CASE predicate.test = "text" ->
         n.Text = predicate.value \/ n.ContentDesc = predicate.value
    [] predicate.test = "id" ->
         \/ n.ResourceID = predicate.value
         \/ HasSuffix(n.ResourceID, sIdInfix \o predicate.value)
    [] predicate.test = "desc" -> n.ContentDesc = predicate.value
    [] predicate.test = "class" -> n.Class = predicate.value
    [] predicate.test = "contains" ->
         \/ StrContains(n.Text, predicate.value)
         \/ StrContains(n.ContentDesc, predicate.value)
    [] predicate.test = "advanced" -> matchAdvancedQuery(n, predicate.value)
    [] OTHER -> FALSE

RECURSIVE collectMatchingNodes(_, _)
collectMatchingNodes(node, predicate) ==
  LET RECURSIVE Kids(_)
      Kids(i) == IF i > Len(node.Nodes) THEN << >>
                 ELSE collectMatchingNodes(node.Nodes[i], predicate) \o Kids(i + 1)
  IN IF node = NilNode THEN << >>
     ELSE (IF ApplyPred(predicate, node) THEN <<node>> ELSE << >>) \o Kids(1)

\* if index < len(nodes) { return nodes[index] }; return nil
\* A negative index passes the test and indexes outside the slice.
NodeAt(nodes, index) ==
  IF index < Len(nodes)
    THEN IF index < 0 THEN Panic ELSE Some(nodes[index + 1])
    ELSE NilNode
findElementByText(root, text, index) ==
  NodeAt(collectMatchingNodes(root, Pred("text", text)), index)
findElementByID(root, id, index) ==
  NodeAt(collectMatchingNodes(root, Pred("id", id)), index)
findElementByDesc(root, desc, index) ==
  NodeAt(collectMatchingNodes(root, Pred("desc", desc)), index)
findElementByClass(root, class, index) ==
  NodeAt(collectMatchingNodes(root, Pred("class", class)), index)
findElementByContains(root, text, index) ==
  NodeAt(collectMatchingNodes(root, Pred("contains", text)), index)
findElementByAdvanced(root, query, index) ==
  NodeAt(collectMatchingNodes(root, Pred("advanced", query)), index)

\* &UINode{Bounds: value}: a node allocated by the call, with no other attribute
FreshNode(bounds) ==
  [ptr |-> <<"new">>, Text |-> << >>, ResourceID |-> << >>, ContentDesc |-> << >>,
   Class |-> << >>, Bounds |-> bounds, Clickable |-> << >>, Nodes |-> << >>]

\* The selector types xpath and coordinates delegate to evaluators outside the
\* selector engine and are not drawn as inputs.
FindElementBySelector(root, selector) ==
  IF selector = NilSel \/ root = NilNode THEN NilNode
  ELSE CASE selector.Type = "text" ->
              findElementByText(root, selector.Value, selector.Index)
         [] selector.Type = "id" ->
              findElementByID(root, selector.Value, selector.Index)
         [] selector.Type \in {"desc", "description"} ->
              findElementByDesc(root, selector.Value, selector.Index)
         [] selector.Type = "class" ->
              findElementByClass(root, selector.Value, selector.Index)
         [] selector.Type = "contains" ->
              findElementByContains(root, selector.Value, selector.Index)
         [] selector.Type = "bounds" -> Some(FreshNode(selector.Value))
         [] selector.Type = "advanced" ->
              findElementByAdvanced(root, selector.Value, selector.Index)
         [] OTHER -> NilNode

FindAllElementsBySelector(root, selector) ==
  IF selector = NilSel \/ root = NilNode THEN << >>
  ELSE CASE selector.Type = "text" ->
              collectMatchingNodes(root, Pred("text", selector.Value))
         [] selector.Type = "id" ->
              collectMatchingNodes(root, Pred("id", selector.Value))
         [] selector.Type \in {"desc", "description"} ->
              collectMatchingNodes(root, Pred("desc", selector.Value))
         [] selector.Type = "class" ->
              collectMatchingNodes(root, Pred("class", selector.Value))
         [] selector.Type = "contains" ->
              collectMatchingNodes(root, Pred("contains", selector.Value))
         [] selector.Type = "advanced" ->
              collectMatchingNodes(root, Pred("advanced", selector.Value))
         [] OTHER -> << >>

\* ---- selector generation ----
\* the nodes of a tree, node before children, children in order
RECURSIVE Preorder(_)
Preorder(node) ==
  LET RECURSIVE Kids(_)
      Kids(i) == IF i > Len(node.Nodes) THEN << >>
                 ELSE Preorder(node.Nodes[i]) \o Kids(i + 1)
  IN IF node = NilNode THEN << >> ELSE <<node>> \o Kids(1)
InTree(root, node) == \E i \in 1..Len(Preorder(root)) : Preorder(root)[i].ptr = node.ptr

\* the denylist of common UI words
GenericTexts == {sCancel}
isGenericText(text) == text \in GenericTexts
\* the number of nodes of the tree a selector of the type and value matches
countMatchingNodes(root, selectorType, value) ==
  Len(FindAllElementsBySelector(root, Selector(selectorType, value, 0)))
\* the structural path of a node of the tree; empty for a node that is not in it
buildXPath(root, node) ==
  IF InTree(root, node) THEN <<"/">> \o node.ptr ELSE << >>

isSelectorUnique(root, selectorType, value) ==
  countMatchingNodes(root, selectorType, value) = 1

GetBestSelector_IdFirst(node, root) ==
  IF node.ResourceID # << >> /\ isSelectorUnique(root, "id", node.ResourceID)
    THEN [Type |-> "id", Value |-> node.ResourceID]
  ELSE IF /\ node.Text # << >>
          /\ isSelectorUnique(root, "text", node.Text)
          /\ ~isGenericText(node.Text)
    THEN [Type |-> "text", Value |-> node.Text]
  ELSE IF node.ContentDesc # << >> /\ isSelectorUnique(root, "desc", node.ContentDesc)
    THEN [Type |-> "desc", Value |-> node.ContentDesc]
  ELSE IF buildXPath(root, node) # << >>
    THEN [Type |-> "xpath", Value |-> buildXPath(root, node)]
  ELSE IF node.Bounds # << >>
    THEN [Type |-> "bounds", Value |-> node.Bounds]
  ELSE NilSel
GetBestSelector(node, root) ==
  IF /\ node.Text # << >>
     /\ isSelectorUnique(root, "text", node.Text)
     /\ ~isGenericText(node.Text)
    THEN [Type |-> "text", Value |-> node.Text]
  ELSE IF node.ResourceID # << >> /\ isSelectorUnique(root, "id", node.ResourceID)
    THEN [Type |-> "id", Value |-> node.ResourceID]
  ELSE IF node.ContentDesc # << >> /\ isSelectorUnique(root, "desc", node.ContentDesc)
    THEN [Type |-> "desc", Value |-> node.ContentDesc]
  ELSE IF buildXPath(root, node) # << >>
    THEN [Type |-> "xpath", Value |-> buildXPath(root, node)]
  ELSE IF node.Bounds # << >>
    THEN [Type |-> "bounds", Value |-> node.Bounds]
  ELSE NilSel

\* SelectorSuggestion without its Description, which is display text
Suggestion(type, value, priority) ==
  [Type |-> type, Value |-> value, Priority |-> priority]
\* the inner and the outer loop of the sort by priority, 1-based
RECURSIVE SortInner(_, _, _)
SortInner_Ascending(s, i, j) ==
  IF j > Len(s) THEN s
  ELSE SortInner(IF s[j].Priority < s[i].Priority
                   THEN [s EXCEPT ![i] = s[j], ![j] = s[i]] ELSE s, i, j + 1)
SortInner(s, i, j) ==
  IF j > Len(s) THEN s
  ELSE SortInner(IF s[j].Priority > s[i].Priority
                   THEN [s EXCEPT ![i] = s[j], ![j] = s[i]] ELSE s, i, j + 1)
RECURSIVE SortOuter(_, _)
SortOuter(s, i) ==
  IF i > Len(s) - 1 THEN s ELSE SortOuter(SortInner(s, i, i + 1), i + 1)

GenerateSelectorSuggestions(node, root) ==
  LET text ==
        IF node.Text = << >> THEN << >>
        ELSE <<Suggestion("text", node.Text,
                          IF isGenericText(node.Text) THEN 3
                          ELSE IF ~isSelectorUnique(root, "text", node.Text) THEN 3
                          ELSE 5)>>
      id ==
        IF node.ResourceID = << >> THEN << >>
        ELSE <<Suggestion("id", node.ResourceID,
                          IF ~isSelectorUnique(root, "id", node.ResourceID) THEN 3 ELSE 5)>>
      desc ==
        IF node.ContentDesc = << >> THEN << >>
        ELSE <<Suggestion("desc", node.ContentDesc,
                          IF ~isSelectorUnique(root, "desc", node.ContentDesc) THEN 3
                          ELSE 4)>>
      class ==
        IF node.Class = << >> THEN << >> ELSE <<Suggestion("class", node.Class, 2)>>
      xpath ==
        IF buildXPath(root, node) = << >> THEN << >>
        ELSE <<Suggestion("xpath", buildXPath(root, node), 2)>>
      bounds ==
        IF node.Bounds = << >> THEN << >> ELSE <<Suggestion("bounds", node.Bounds, 1)>>
  IN SortOuter(text \o id \o desc \o class \o xpath \o bounds, 1)

\* ---- the calls of the selector engine ----
\* the selectors drawn: for each type, values that match several nodes, one
\* node and no node of the trees
sNone   == <<"n", "o">>
qLogAndClickable ==
  aText \o <<"~">> \o sLog \o sepAND \o aClickable \o <<"=">> \o sTrue
TypeValues ==
  { <<"text", sOK>>, <<"text", sSubmit>>, <<"text", sNone>>,
    <<"id", sOkId>>, <<"id", sAppOk>>,
    <<"desc", sOK>>, <<"description", sLogOut>>,
    <<"class", sButton>>,
    <<"contains", sLog>>, <<"contains", sNone>>,
    <<"bounds", sB1>>, <<"bounds", sB3>>, <<"bounds", sNone>>,
    <<"advanced", qLogAndClickable>>, <<"advanced", sOkId>>, <<"advanced", << >> >>,
    <<"unknown", sOK>> }
Indexes   == (-1)..MaxIndex
Selectors == {Selector(tv[1], tv[2], i) : tv \in TypeValues, i \in Indexes} \cup {NilSel}

\* the advanced queries drawn for matchAdvancedQuery: one to three conditions
\* joined by separators in upper, lower and mixed case, and the blank queries.
\* conds and seps record how the string was put together.
cTextLog   == aText \o <<"~">> \o sLog
cClickable == aClickable \o <<"=">> \o sTrue
cIdOk      == aId \o <<"$">> \o sOkId
cPlain     == <<"s", "u", "b">>
Conds == {cTextLog, cClickable, cIdOk, cPlain}
Seps  == { [kind |-> "and", str |-> sepAND],
           [kind |-> "and", str |-> <<" ", "a", "n", "d", " ">>],
           [kind |-> "or",  str |-> sepOR],
           [kind |-> "or",  str |-> <<" ", "o", "R", " ">>] }
Query(str, conds, seps) == [str |-> str, conds |-> conds, seps |-> seps]
Queries ==
  { Query(<< >>, << >>, << >>), Query(<<" ", " ">>, << >>, << >>) }
    \cup { Query(<<" ">> \o a, <<a>>, << >>) : a \in Conds }
    \cup { Query(a \o s.str \o b, <<a, b>>, <<s.kind>>) : a \in Conds, b \in Conds, s \in Seps }
    \cup { Query(a \o s.str \o b \o t.str \o c, <<a, b, c>>, <<s.kind, t.kind>>) :
             a \in Conds, b \in Conds, c \in Conds, s \in Seps, t \in Seps }
QueryNodes == {MkNode(k, << >>, << >>) : k \in NodeKinds \cup InnerKinds}

\* the nodes GetBestSelector and GenerateSelectorSuggestions are asked about:
\* every node of the tree, and nodes that are not in it
Detached ==
  { MkNode(Attrs(<< >>, << >>, << >>, << >>, sB3, sFalse), <<"detached">>, << >>),
    MkNode(Attrs(<< >>, << >>, << >>, << >>, << >>, sFalse), <<"detached">>, << >>) }
Targets(root) == {Preorder(root)[i] : i \in 1..Len(Preorder(root))} \cup Detached

FindAllCall ==
  /\ selOp = "idle"
  /\ \E root \in Trees \cup {NilNode}, selector \in Selectors :
       /\ selRoot' = root
       /\ selSel' = selector
       /\ selRes' = [op |-> "all", all |-> FindAllElementsBySelector(root, selector)]
  /\ selOp' = "all"
  /\ UNCHANGED <<selNode, selQuery>>
  /\ UNCHANGED <<recVars, playVars, callerVars, parseVars, devVars, storeVars, paceVars>>

\* FindElementBySelector with the root and selector FindAllElementsBySelector
\* was called with
FindElementCall ==
  /\ selOp = "all"
  /\ selRes' = [op |-> "first", all |-> selRes.all,
                first |-> FindElementBySelector(selRoot, selSel)]
  /\ selOp' = "first"
  /\ UNCHANGED <<selRoot, selSel, selNode, selQuery>>
  /\ UNCHANGED <<recVars, playVars, callerVars, parseVars, devVars, storeVars, paceVars>>

MatchCall ==
  /\ selOp = "idle"
  /\ \E node \in QueryNodes, q \in Queries :
       /\ selNode' = node
       /\ selQuery' = q
       /\ selRes' = [op |-> "match", match |-> matchAdvancedQuery(node, q.str)]
  /\ selOp' = "match"
  /\ UNCHANGED <<selRoot, selSel>>
  /\ UNCHANGED <<recVars, playVars, callerVars, parseVars, devVars, storeVars, paceVars>>

BestCall ==
  /\ selOp = "idle"
  /\ \E root \in Trees : \E node \in Targets(root) :
       /\ selRoot' = root
       /\ selNode' = node
       /\ selRes' = [op |-> "best", best |-> GetBestSelector(node, root)]
  /\ selOp' = "best"
  /\ UNCHANGED <<selSel, selQuery>>
  /\ UNCHANGED <<recVars, playVars, callerVars, parseVars, devVars, storeVars, paceVars>>

SuggestCall ==
  /\ selOp = "idle"
  /\ \E root \in Trees : \E node \in Targets(root) :
       /\ selRoot' = root
       /\ selNode' = node
       /\ selRes' = [op |-> "suggest",
                     suggestions |-> GenerateSelectorSuggestions(node, root)]
  /\ selOp' = "suggest"
  /\ UNCHANGED <<selSel, selQuery>>
  /\ UNCHANGED <<recVars, playVars, callerVars, parseVars, devVars, storeVars, paceVars>>

\* a single condition attr<op>value put to evaluateAdvancedCondition: the
\* attribute names of getNodeAttribute and one it does not know, the five
\* operators, and values with and without operator characters and blanks
CondAttrs  == {aText, aId, <<"n", "o">>}
CondOps    == {"~", "^", "$", "=", ":"}
CondValues ==
  { << >>, <<"o", "k">>, <<"o">>, <<"K">>, <<"x">>, <<" ", "o", "k">>,
    <<"a", "=", "b">>, <<"a", "~", "b">>, <<"=">>, <<"~">>, <<"b", ":">> }
CondNodes ==
  QueryNodes \cup
    { MkNode(Attrs(<<"a", "=", "b">>, <<"a", "~", "b">>, << >>, << >>, << >>, sFalse),
             << >>, << >>) }
ConditionCall ==
  /\ selOp = "idle"
  /\ \E node \in CondNodes, attr \in CondAttrs, o \in CondOps, value \in CondValues :
       /\ selNode' = node
       /\ selRes' = [op |-> "cond", attr |-> attr, oper |-> o, value |-> value,
                     match |-> evaluateAdvancedCondition(node, attr \o <<o>> \o value)]
  /\ selOp' = "cond"
  /\ UNCHANGED <<selRoot, selSel, selQuery>>
  /\ UNCHANGED <<recVars, playVars, callerVars, parseVars, devVars, storeVars, paceVars>>

NextSel ==
  \/ ConditionCall
  \/ FindAllCall
  \/ FindElementCall
  \/ MatchCall
  \/ BestCall
  \/ SuggestCall

SpecSel == Init /\ [][NextSel]_vars


\* ==== input device locator ================================================
\* GetTouchInputDevice works on the output of "getevent -p" with its line ends
\* normalised. A device block is the sequence of its lines (the block split at
\* "\n"), each line a string: a block holds a string without a line end iff
\* one of its lines does.
touchKeywords ==
  << <<"t", "o", "u", "c", "h">>,
     <<"t", "s">>,
     <<"f", "t", "5">>,
     <<"g", "o", "o", "d", "i", "x">>,
     <<"s", "y", "n", "a", "p", "t", "i", "c", "s">>,
     <<"a", "t", "m", "e", "l">>,
     <<"e", "l", "a", "n">>,
     <<"h", "i", "m", "a", "x">>,
     <<"f", "o", "c", "a", "l", "t", "e", "c", "h">>,
     <<"m", "x", "t">>,
     <<"n", "v", "t">>,
     <<"i", "l", "i", "t", "e", "k">>,
     <<"s", "e", "c", "_", "t", "o", "u", "c", "h", "s", "c", "r", "e", "e", "n">>,
     <<"i", "n", "p", "u", "t", "_", "m", "t">>,
     <<"m", "t", "k", "-", "t", "p", "d">> >>
sDevInput == <<"/", "d", "e", "v", "/", "i", "n", "p", "u", "t", "/">>
sNameColon == <<"n", "a", "m", "e", ":">>
sAbsMtX ==
  <<"A", "B", "S", "_", "M", "T", "_", "P", "O", "S", "I", "T", "I", "O", "N", "_",
    "X">>
s0035 == <<"0", "0", "3", "5">>
\* the lines of the blocks drawn
lEvents == <<" ", " ", "e", "v", "e", "n", "t", "s", ":">>
lKeyLine ==
  <<" ", " ", " ", " ", "K", "E", "Y", " ", "(", "0", "0", "0", "1", ")", ":", " ",
    "0", "0", "7", "2", " ", "0", "0", "7", "3", " ", "0", "0", "7", "4">>
lAbsCode ==
  <<" ", " ", " ", " ", "A", "B", "S", " ", "(", "0", "0", "0", "3", ")", ":", " ",
    "0", "0", "3", "5", " ", " ", ":", " ", "v", "a", "l", "u", "e", " ", "0", ",",
    " ", "m", "i", "n", " ", "0", ",", " ", "m", "a", "x", " ", "1", "0", "7", "9">>
lAbsName ==
  <<" ", " ", " ", " ", "A", "B", "S", " ", "(", "0", "0", "0", "3", ")", ":", " ",
    "A", "B", "S", "_", "M", "T", "_", "P", "O", "S", "I", "T", "I", "O", "N", "_",
    "X", " ", " ", ":", " ", "v", "a", "l", "u", "e", " ", "0">>
lNameFts ==
  <<" ", " ", "n", "a", "m", "e", ":", " ", " ", " ", " ", " ", "\"", "f", "t", "s",
    "_", "t", "s", "\"">>
lNameGoodix ==
  <<" ", " ", "n", "a", "m", "e", ":", " ", " ", " ", " ", " ", "\"", "G", "O", "O",
    "D", "I", "X", "-", "P", "a", "n", "e", "l", "\"">>
lNamePanel ==
  <<" ", " ", "n", "a", "m", "e", ":", " ", " ", " ", " ", " ", "\"", "p", "a", "n",
    "e", "l", "\"">>
lNameKeys ==
  <<" ", " ", "n", "a", "m", "e", ":", " ", " ", " ", " ", " ", "\"", "g", "p", "i",
    "o", "-", "k", "e", "y", "s", "\"">>
lNameTouchKeys ==
  <<" ", " ", "n", "a", "m", "e", ":", " ", " ", " ", " ", " ", "\"", "T", "o", "u",
    "c", "h", "-", "K", "e", "y", "s", "\"">>
lCouldNot ==
  <<" ", "c", "o", "u", "l", "d", " ", "n", "o", "t", " ", "g", "e", "t", " ", "d",
    "r", "i", "v", "e", "r", " ", "v", "e", "r", "s", "i", "o", "n">>
sEvent == <<"e", "v", "e", "n", "t">>
\* the first line of the block "add device i: /dev/input/eventi", after the
\* split at "add device"
PathOf(i)   == sDevInput \o sEvent \o <<Digit[i]>>
PathLine(i) == <<" ", Digit[i], ":", " ">> \o PathOf(i) \o <<" ">>
\* the blocks drawn for position i of the output: touch screens named with a
\* keyword in lower and upper case, by axis code and by axis name; a touch
\* screen with another name and one with no name line; a keyboard and keys named
\* "Touch" without the axis; a block with no path, a block cut before its first
\* line end, and a blank block
BlockKinds(i) ==
  { <<PathLine(i), lNameFts, lEvents, lAbsCode, << >> >>,
    <<PathLine(i), lNameGoodix, lEvents, lAbsName, << >> >>,
    <<PathLine(i), lNamePanel, lEvents, lAbsCode, << >> >>,
    <<PathLine(i), lEvents, lAbsCode, << >> >>,
    <<PathLine(i), lNameKeys, lEvents, lKeyLine, << >> >>,
    <<PathLine(i), lNameTouchKeys, lEvents, lKeyLine, << >> >>,
    <<lCouldNot, lNameFts, lAbsCode, << >> >>,
    <<PathLine(i)>>,
    << <<" ">>, << >> >> }
\* strings.Split(output, "add device"): the text before the first "add device",
\* which is empty, and the blocks
RECURSIVE BlockSeqs(_)
BlockSeqs(n) ==
  IF n = 0 THEN {<< >>}
  ELSE {bs \o <<b>> : bs \in BlockSeqs(n - 1), b \in BlockKinds(n)}
Preamble == << << >> >>
Outputs  == UNION { {<<Preamble>> \o bs : bs \in BlockSeqs(n)} : n \in 0..MaxBlocks }

\* the line the name loop stops at: the first line that is not blank and
\* contains "name:", or 0
NameLine(lines) ==
  IF \E k \in 1..Len(lines) : TrimSpace(lines[k]) # << >> /\ StrContains(lines[k], sNameColon)
    THEN CHOOSE k \in 1..Len(lines) :
           /\ TrimSpace(lines[k]) # << >> /\ StrContains(lines[k], sNameColon)
           /\ \A j \in 1..(k - 1) :
                ~(TrimSpace(lines[j]) # << >> /\ StrContains(lines[j], sNameColon))
    ELSE 0
NameMatch(lines) ==
  /\ NameLine(lines) # 0
  /\ \E w \in 1..Len(touchKeywords) :
       StrContains(ToLower(lines[NameLine(lines)]), touchKeywords[w])
\* the body of the loop over the blocks: the candidates a block adds
CandidatesOf(deviceBlock) ==
  LET BlockContains(sub) == \E k \in 1..Len(deviceBlock) : StrContains(deviceBlock[k], sub)
      BlockIsBlank == \A k \in 1..Len(deviceBlock) : TrimSpace(deviceBlock[k]) = << >>
  IN
  IF BlockIsBlank THEN << >>
  ELSE IF Len(deviceBlock) = 1 THEN << >>
  ELSE IF StrIndex(deviceBlock[1], sDevInput) = -1 THEN << >>
  ELSE IF ~(BlockContains(sAbsMtX) \/ BlockContains(s0035))
    THEN << >>
  ELSE << [Path  |-> TrimSpace(Slice(deviceBlock[1], StrIndex(deviceBlock[1], sDevInput),
                                      Len(deviceBlock[1]))),
           Score |-> 1 + (IF NameMatch(deviceBlock) THEN 10 ELSE 0)] >>
RECURSIVE Candidates(_, _)
Candidates(devices, i) ==
  IF i > Len(devices) THEN << >>
  ELSE CandidatesOf(devices[i]) \o Candidates(devices, i + 1)
\* the loop that finds the best candidate
RECURSIVE Best(_, _, _, _)
Best_LastAmongEquals(candidates, i, bestPath, bestScore) ==
  IF i > Len(candidates) THEN bestPath
  ELSE IF candidates[i].Score >= bestScore
    THEN Best(candidates, i + 1, candidates[i].Path, candidates[i].Score)
    ELSE Best(candidates, i + 1, bestPath, bestScore)
Best(candidates, i, bestPath, bestScore) ==
  IF i > Len(candidates) THEN bestPath
  ELSE IF candidates[i].Score > bestScore
    THEN Best(candidates, i + 1, candidates[i].Path, candidates[i].Score)
    ELSE Best(candidates, i + 1, bestPath, bestScore)

\* GetTouchInputDevice(deviceId): "getevent -p" fails, or prints one of the outputs
GetTouchInputDeviceFails ==
  /\ devOp = "idle"
  /\ devOp' = "returned"
  /\ devOutput' = << >>
  /\ devRet' = [path |-> << >>, err |-> "failed to get input devices"]
  /\ UNCHANGED <<recVars, playVars, callerVars, parseVars, selVars, storeVars, paceVars>>
GetTouchInputDevice ==
  /\ devOp = "idle"
  /\ \E devices \in Outputs :
       LET bestPath == Best(Candidates(devices, 1), 1, << >>, 0)
       IN /\ devOutput' = devices
          /\ devRet' = IF bestPath # << >>
                         THEN [path |-> bestPath, err |-> "nil"]
                         ELSE [path |-> << >>, err |-> "no touch input device found"]
  /\ devOp' = "returned"
  /\ UNCHANGED <<recVars, playVars, callerVars, parseVars, selVars, storeVars, paceVars>>

NextDev ==
  \/ GetTouchInputDeviceFails
  \/ GetTouchInputDevice

SpecDev == Init /\ [][NextDev]_vars

\* ==== script store =======================================================
sJsonSuffix == <<".", "j", "s", "o", "n">>
sScriptPrefix == <<"s", "c", "r", "i", "p", "t", "_">>
nmSpaced == <<"a", " ", "b">>
nmUnder == <<"a", "_", "b">>
nmBangs == <<"!", "!">>
fnNotes == <<"n", "o", "t", "e", "s", ".", "t", "x", "t">>
fnBroken == <<"b", "r", "o", "k", "e", "n", ".", "j", "s", "o", "n">>
\* the characters [a-zA-Z0-9_-], in byte order
AllowedChars ==
  <<"-", "0", "1", "2", "3", "4", "5", "6", "7", "8", "9", "A", "B", "C", "D", "E",
    "F", "G", "H", "I", "J", "K", "L", "M", "N", "O", "P", "Q", "R", "S", "T", "U",
    "V", "W", "X", "Y", "Z", "_", "a", "b", "c", "d", "e", "f", "g", "h", "i", "j",
    "k", "l", "m", "n", "o", "p", "q", "r", "s", "t", "u", "v", "w", "x", "y", "z">>
\* regexp [^a-zA-Z0-9_-] ReplaceAllString(name, "_")
Sanitize(name) ==
  LET IsAllowed(c) == \E i \in 1..Len(AllowedChars) : AllowedChars[i] = c
  IN [i \in 1..Len(name) |-> IF IsAllowed(name[i]) THEN name[i] ELSE "_"]
\* fmt.Sprintf("script_%d", time.Now().Unix()), for a time of one digit
Placeholder(t) == sScriptPrefix \o <<Digit[t]>>
\* safeName + ".json" in the scripts directory
FileName_NoSuffix(safeName) == safeName
FileName(safeName) == safeName \o sJsonSuffix

\* os.ReadDir lists the entries sorted by file name, byte by byte
RECURSIVE ReadDir(_)
ReadDir(names) ==
  LET ByteOrder == <<"-", ".">> \o Tail(AllowedChars)
      Rank(c) == CHOOSE i \in 1..Len(ByteOrder) : ByteOrder[i] = c
      RECURSIVE NameLess(_, _)
      NameLess(a, b) ==
        IF Len(b) = 0 THEN FALSE
        ELSE IF Len(a) = 0 THEN TRUE
        ELSE IF a[1] # b[1] THEN Rank(a[1]) < Rank(b[1])
        ELSE NameLess(Tail(a), Tail(b))
  IN IF names = {} THEN << >>
     ELSE LET first == CHOOSE n \in names : \A m \in names \ {n} : NameLess(n, m)
          IN <<first>> \o ReadDir(names \ {first})

\* TouchScript and TouchEvent
TouchEvent(ts, type, x, y, x2, y2, duration) ==
  [Timestamp |-> ts, Type |-> type, X |-> x, Y |-> y, X2 |-> x2, Y2 |-> y2,
   Duration |-> duration]
TouchScript(name, events) ==
  [DeviceID |-> "d1", Name |-> name, Resolution |-> "1080x1920",
   CreatedAt |-> "2024-01-01T00:00:00Z", Events |-> events]

\* json.MarshalIndent of a script: an object with one member per field; a member
\* marked omitempty is left out when the field is zero. json.Unmarshal gives a
\* field without a member its zero value.
Marshal(script) ==
  LET OmitEmpty == {"x2", "y2", "duration"}
      EventMembers(e) ==
        [timestamp |-> e.Timestamp, type |-> e.Type, x |-> e.X, y |-> e.Y, x2 |-> e.X2,
         y2 |-> e.Y2, duration |-> e.Duration]
      MarshalEvent(e) ==
        LET all == EventMembers(e)
        IN [k \in {m \in DOMAIN all : m \notin OmitEmpty \/ all[m] # 0} |-> all[k]]
  IN [device_id |-> script.DeviceID, name |-> script.Name,
      resolution |-> script.Resolution, created_at |-> script.CreatedAt,
      events |-> [i \in 1..Len(script.Events) |-> MarshalEvent(script.Events[i])]]
Unmarshal(doc) ==
  LET NumberOf(obj, member) == IF member \in DOMAIN obj THEN obj[member] ELSE 0
      UnmarshalEvent(obj) ==
        TouchEvent(NumberOf(obj, "timestamp"), obj.type, NumberOf(obj, "x"),
                   NumberOf(obj, "y"), NumberOf(obj, "x2"), NumberOf(obj, "y2"),
                   NumberOf(obj, "duration"))
  IN [DeviceID |-> doc.device_id, Name |-> doc.name, Resolution |-> doc.resolution,
      CreatedAt |-> doc.created_at,
      Events |-> [i \in 1..Len(doc.events) |-> UnmarshalEvent(doc.events[i])]]

\* the content of a file: the JSON text of a script, or something else
JsonFile(script) == [kind |-> "json", doc |-> Marshal(script)]
OtherFile == [kind |-> "other"]

\* the scripts, names and directory contents drawn
Names      == {<< >>, nmSpaced, nmUnder, nmBangs}
EventLists ==
  { << >>,
    <<TouchEvent(0, "tap", 540, 960, 0, 0, 0),
      TouchEvent(1200, "swipe", 100, 0, 900, 1800, 350),
      TouchEvent(2000, "wait", 0, 0, 0, 0, 500)>> }
StoredScripts == {TouchScript(n, ev) : n \in Names, ev \in EventLists}
InitialDirs ==
  { [f \in {fnNotes, fnBroken} |-> OtherFile],
    [f \in {FileName(nmUnder)} |-> JsonFile(TouchScript(nmUnder, << >>))] }

\* the loop of LoadTouchScripts over the sorted entries
RECURSIVE LoadFrom(_, _, _)
LoadFrom(dir, entries, i) ==
  IF i > Len(entries) THEN << >>
  ELSE IF ~HasSuffix(entries[i], sJsonSuffix) \/ dir[entries[i]].kind # "json"
    THEN LoadFrom(dir, entries, i + 1)
  ELSE <<Unmarshal(dir[entries[i]].doc)>> \o LoadFrom(dir, entries, i + 1)

StoreCall(op, name, err) ==
  /\ storeCalls < MaxCalls
  /\ storeCalls' = storeCalls + 1
  /\ storeOp' = [op |-> op, name |-> name]
  /\ storeRet' = err

\* the directory holds the written file alone
SaveTouchScript_ClearsDir ==
  \E script \in StoredScripts, t \in now..(IF now < MaxNow THEN now + 1 ELSE now) :
    LET safeName == IF Sanitize(script.Name) = << >> THEN Placeholder(t)
                    ELSE Sanitize(script.Name)
        filePath == FileName(safeName)
    IN /\ Sanitize(script.Name) # << >> => t = now
       /\ StoreCall("save", script.Name, "nil")
       /\ now' = t
       /\ files' = [f \in {filePath} |-> JsonFile(script)]
       /\ lastSaved' = script
       /\ savedBefore' = lastSaved
       /\ UNCHANGED loaded
       /\ UNCHANGED <<recVars, playVars, callerVars, parseVars, selVars, devVars, paceVars>>
\* SaveTouchScript(script); an empty sanitized name is replaced by the
\* placeholder of the time of the call
SaveTouchScript ==
  \E script \in StoredScripts, t \in now..(IF now < MaxNow THEN now + 1 ELSE now) :
    LET safeName == IF Sanitize(script.Name) = << >> THEN Placeholder(t)
                    ELSE Sanitize(script.Name)
        filePath == FileName(safeName)
    IN /\ Sanitize(script.Name) # << >> => t = now
       /\ StoreCall("save", script.Name, "nil")
       /\ now' = t
       /\ files' = [f \in DOMAIN files \cup {filePath} |->
                      IF f = filePath THEN JsonFile(script) ELSE files[f]]
       /\ lastSaved' = script
       /\ savedBefore' = lastSaved
       /\ UNCHANGED loaded
       /\ UNCHANGED <<recVars, playVars, callerVars, parseVars, selVars, devVars, paceVars>>
\* os.WriteFile fails
SaveTouchScriptWriteFails ==
  /\ StoreCall("save", << >>, "failed to write script file")
  /\ UNCHANGED <<files, now, lastSaved, savedBefore, loaded>>
  /\ UNCHANGED <<recVars, playVars, callerVars, parseVars, selVars, devVars, paceVars>>

LoadTouchScripts ==
  /\ StoreCall("load", << >>, "nil")
  /\ loaded' = LoadFrom(files, ReadDir(DOMAIN files), 1)
  /\ UNCHANGED <<files, now, lastSaved, savedBefore>>
  /\ UNCHANGED <<recVars, playVars, callerVars, parseVars, selVars, devVars, paceVars>>

DeleteTouchScript ==
  \E name \in Names :
    LET filePath == FileName(Sanitize(name))
    IN /\ IF filePath \in DOMAIN files
            THEN /\ StoreCall("delete", name, "nil")
                 /\ files' = [f \in DOMAIN files \ {filePath} |-> files[f]]
            ELSE /\ StoreCall("delete", name, "script not found")
                 /\ UNCHANGED files
       /\ lastSaved' = IF filePath \in DOMAIN files THEN NoScript ELSE lastSaved
       /\ savedBefore' = IF filePath \in DOMAIN files THEN NoScript ELSE savedBefore
       /\ UNCHANGED <<now, loaded>>
       /\ UNCHANGED <<recVars, playVars, callerVars, parseVars, selVars, devVars, paceVars>>

\* before the first call, files put into the directory from outside: other
\* files, or a script saved by an earlier run
FilesFromOutside ==
  /\ storeCalls = 0
  /\ files = EmptyDir
  /\ files' \in InitialDirs
  /\ UNCHANGED <<now, storeCalls, storeOp, storeRet, loaded, lastSaved, savedBefore>>
  /\ UNCHANGED <<recVars, playVars, callerVars, parseVars, selVars, devVars, paceVars>>

NextStore ==
  \/ FilesFromOutside
  \/ SaveTouchScript
  \/ SaveTouchScriptWriteFails
  \/ LoadTouchScripts
  \/ DeleteTouchScript

SpecStore == Init /\ [][NextStore]_vars


\* ==== the pacing of a playback ==============================================
\* The event loop of the playback goroutine with its clock: times are in
\* milliseconds, paceNow is time.Now(), and an event is [Timestamp, Type,
\* Duration]. A timer (time.After, time.Sleep) fires no earlier than its
\* duration after it was set; any step may be delayed.
TimedEvent(timestamp, type, duration) ==
  [Timestamp |-> timestamp, Type |-> type, Duration |-> duration]
TimedEvents ==
  {TimedEvent(ts, type, 0) : ts \in {0, 1, 3}, type \in {"tap", "unknown"}}
    \cup {TimedEvent(ts, "wait", 2) : ts \in {0, 1, 3}}
RECURSIVE TimedScripts(_)
TimedScripts(n) ==
  IF n = 0 THEN {<< >>}
  ELSE TimedScripts(n - 1)
         \cup {Append(sc, e) : sc \in TimedScripts(n - 1), e \in TimedEvents}

\* the goroutine sleeps for the whole timestamp
SleepDuration_FullTimestamp(event, elapsed) == event.Timestamp

\* sleepDuration := time.Duration(event.Timestamp-elapsed) * time.Millisecond
SleepDuration(event, elapsed) == event.Timestamp - elapsed

\* the switch of iteration i, reached at elapsed time at after a sleep of slept:
\* tap and swipe run a device command, wait sleeps, any other type continues
PaceSwitch(i, checked, slept) ==
  LET event == paceScript[i]
  IN /\ paceLog' = Append(paceLog, [i |-> i, due |-> event.Timestamp, checked |-> checked,
                                    slept |-> slept, at |-> paceNow - paceStart])
     /\ CASE BuildsCommand(event.Type) ->
               /\ pacePc' = "cmd"
               /\ UNCHANGED <<paceI, paceWake>>
          [] event.Type = "wait" ->
               /\ pacePc' = "wsleep"
               /\ paceWake' = paceNow + event.Duration
               /\ UNCHANGED paceI
          [] OTHER ->
               /\ pacePc' = "head"
               /\ paceI' = i + 1
               /\ UNCHANGED paceWake

\* go func(): startTime := time.Now(); total := len(script.Events)
PaceStart ==
  /\ pacePc = "idle"
  /\ \E sc \in TimedScripts(MaxTimed) : paceScript' = sc
  /\ paceStart' = paceNow
  /\ pacePc' = "head"
  /\ paceI' = 1
  /\ UNCHANGED <<paceNow, paceWake, paceDone, paceLog, paceProgress, paceSlept>>
  /\ UNCHANGED <<recVars, playVars, callerVars, parseVars, selVars, devVars, storeVars>>

\* the head of iteration i: the context check, elapsed := time.Since(startTime),
\* and either the pacing select or the switch
PaceHead ==
  /\ pacePc = "head"
  /\ IF paceI > Len(paceScript) \/ paceDone
       THEN /\ pacePc' = "done"
            /\ UNCHANGED <<paceI, paceWake, paceLog, paceSlept>>
       ELSE LET event   == paceScript[paceI]
                elapsed == paceNow - paceStart
            IN IF event.Timestamp > elapsed
                 THEN /\ pacePc' = "sleep"
                      /\ paceWake' = paceNow + SleepDuration(event, elapsed)
                      /\ paceSlept' = [checked |-> elapsed,
                                       slept |-> SleepDuration(event, elapsed)]
                      /\ UNCHANGED <<paceI, paceLog>>
                 ELSE /\ PaceSwitch(paceI, elapsed, 0)
                      /\ UNCHANGED paceSlept
  /\ UNCHANGED <<paceScript, paceStart, paceNow, paceDone, paceProgress>>
  /\ UNCHANGED <<recVars, playVars, callerVars, parseVars, selVars, devVars, storeVars>>

\* select: case <-time.After(sleepDuration), then the switch
PaceSleepTimer ==
  /\ pacePc = "sleep"
  /\ paceNow >= paceWake
  /\ PaceSwitch(paceI, paceSlept.checked, paceSlept.slept)
  /\ UNCHANGED <<paceScript, paceStart, paceNow, paceDone, paceProgress, paceSlept>>
  /\ UNCHANGED <<recVars, playVars, callerVars, parseVars, selVars, devVars, storeVars>>

\* select: case <-ctx.Done(): return
PaceSleepCancelled ==
  /\ pacePc = "sleep"
  /\ paceDone
  /\ pacePc' = "done"
  /\ UNCHANGED <<paceScript, paceStart, paceNow, paceI, paceWake, paceDone, paceLog,
                 paceProgress, paceSlept>>
  /\ UNCHANGED <<recVars, playVars, callerVars, parseVars, selVars, devVars, storeVars>>

\* RunAdbCommand returns; EventsEmit("touch-playback-progress", current: i + 1)
PaceCmd ==
  /\ pacePc = "cmd"
  /\ paceProgress' = Append(paceProgress, paceI)
  /\ pacePc' = "head"
  /\ paceI' = paceI + 1
  /\ UNCHANGED <<paceScript, paceStart, paceNow, paceWake, paceDone, paceLog, paceSlept>>
  /\ UNCHANGED <<recVars, playVars, callerVars, parseVars, selVars, devVars, storeVars>>

\* time.Sleep(event.Duration) returns; continue
PaceWait ==
  /\ pacePc = "wsleep"
  /\ paceNow >= paceWake
  /\ pacePc' = "head"
  /\ paceI' = paceI + 1
  /\ UNCHANGED <<paceScript, paceStart, paceNow, paceWake, paceDone, paceLog,
                 paceProgress, paceSlept>>
  /\ UNCHANGED <<recVars, playVars, callerVars, parseVars, selVars, devVars, storeVars>>

\* a millisecond passes
PaceTick ==
  /\ pacePc \notin {"idle", "done"}
  /\ paceNow < MaxClock
  /\ paceNow' = paceNow + 1
  /\ UNCHANGED <<pacePc, paceScript, paceStart, paceI, paceWake, paceDone, paceLog,
                 paceProgress, paceSlept>>
  /\ UNCHANGED <<recVars, playVars, callerVars, parseVars, selVars, devVars, storeVars>>

\* StopTouchPlayback cancels the context
PaceCancel ==
  /\ pacePc \notin {"idle", "done"}
  /\ ~paceDone
  /\ paceDone' = TRUE
  /\ UNCHANGED <<pacePc, paceScript, paceStart, paceNow, paceI, paceWake, paceLog,
                 paceProgress, paceSlept>>
  /\ UNCHANGED <<recVars, playVars, callerVars, parseVars, selVars, devVars, storeVars>>

NextPace ==
  \/ PaceStart
  \/ PaceHead
  \/ PaceSleepTimer
  \/ PaceSleepCancelled
  \/ PaceCmd
  \/ PaceWait
  \/ PaceTick
  \/ PaceCancel

SpecPace == Init /\ [][NextPace]_vars


Next == NextRec \/ NextPlay \/ NextParse \/ NextSel \/ NextDev \/ NextStore \/ NextPace
Spec == Init /\ [][Next]_vars

\* ==========================================================================
\* Properties of the recorder
\* ==========================================================================
recCallerState == <<touchRecordMu, mapVars, session, proc, readerVars, nextSid,
                    recEvents, histVars>>

\* sessions of device d that were stored and whose entries were not deleted
LiveSessions(d) == {s \in Sids : session[s].DeviceID = d /\ s \notin removedSids}

\* the recorder's notifications for a device alternate: started, stopped, started, ...
Alternates(evs) ==
  \A i \in 1..Len(evs) :
    evs[i].name = IF i % 2 = 1 THEN "touch-record-started" ELSE "touch-record-stopped"

C1_Inv ==
  /\ \A d \in Devices :
       /\ Cardinality(LiveSessions(d)) <= 1
       /\ LiveSessions(d) = {touchRecordData[d]} \ {NoSid}
       /\ touchRecordCmd[d] = touchRecordData[d]
       /\ touchRecordCancel[d] = touchRecordData[d]
       /\ Alternates(recEvents[d])
  /\ \A t \in Callers :
       pc[t] \in {"sr_locate", "sr_resolution", "sr_props"}
         => touchRecordMu = t /\ touchRecordCmd[dev[t]] = NoSid

C1_Step ==
  \A t \in Callers :
    pc[t] = "sr_lock" /\ pc'[t] # "sr_lock"
      => IF touchRecordCmd[dev[t]] # NoSid
           THEN /\ ret' = [who |-> t, err |-> "AlreadyRecording", val |-> 0]
                /\ UNCHANGED recCallerState
           ELSE pc'[t] = "sr_locate"

\* C1: every device has at most one stored session whose entries were not deleted,
\* and it is the one the three maps name; a start call is past the exists check
\* only while it holds the mutex and the device has no session, so successful
\* starts on a device are separated by a harvest; a start that finds an entry
\* (also one whose stream a stop has already cancelled) returns "already
\* recording" and changes nothing of the recorder.
C1_OneSessionPerDevice == [] C1_Inv /\ [][C1_Step]_vars

\* a start was refused while a stop had cancelled the stream and not yet harvested
C1_Witness ==
  /\ ret = [who |-> "c1", err |-> "AlreadyRecording", val |-> 0]
  /\ pc["c2"] \in {"st_wait", "st_lock2"}
  /\ touchRecordCmd["d1"] # NoSid
  /\ loc["c2"].cmd = touchRecordCmd["d1"]
  /\ proc[touchRecordCmd["d1"]] \in {"cancelled", "exited"}

\* C10: a stop call that finds no cancel entry for its device returns "no active
\* recording for this device" with no script, and the step changes nothing of the
\* recorder: no map, session, stream, notification or harvest of any device.
C10_StopWithoutSession ==
  [][\A t \in Callers :
       pc[t] = "st_lock1" /\ pc'[t] # "st_lock1" /\ touchRecordCancel[dev[t]] = NoSid
         => /\ pc'[t] = "idle"
            /\ ret' = [who |-> t, err |-> "NotRecording", val |-> 0]
            /\ UNCHANGED recCallerState]_vars

\* a stop was refused on a device with no session
C10_Witness ==
  \E t \in Callers :
    /\ ret = [who |-> t, err |-> "NotRecording", val |-> 0]
    /\ touchRecordCancel["d1"] = NoSid
    /\ recEvents["d1"] = << >>

\* C7: whenever a caller holds the recording mutex it is in no blocking external
\* call: not in an executor command of StartTouchRecording and not in the
\* process-exit wait of StopTouchRecording.
C7_MutexNeverHeldAcrossIO ==
  \A t \in Callers :
    touchRecordMu = t => pc[t] \notin {"sr_locate", "sr_resolution", "sr_props", "st_wait"}

\* the part of C7 the code keeps: StopTouchRecording waits for the process without
\* the mutex, and the queries hold it for their own critical section only
C7_StopWaitsUnlocked ==
  \A t \in Callers :
    pc[t] \in {"st_lock1", "st_wait", "st_lock2", "ir_lock", "gc_lock"} => touchRecordMu # t

\* C3: the lines handed to parseRawEvents for a harvested session are exactly the
\* lines appended to that session, in append order, and the lines of one stream
\* appear in it in stream order without repetition; the step that harvests deletes
\* the three entries of the device, and in the state it returns to
\* IsRecordingTouch is false and GetRecordingEventCount is 0 for the device.
C3_Inv ==
  \A s \in removedSids :
    /\ parsed[s] = appendLog[s]
    /\ parsed[s] = session[s].RawEvents
    /\ \A i, j \in 1..Len(parsed[s]) :
         i < j /\ parsed[s][i][1] = parsed[s][j][1] => parsed[s][i][2] < parsed[s][j][2]

C3_Step ==
  \A s \in Sids :
    s \in removedSids' /\ s \notin removedSids
      => /\ parsed'[s] = appendLog[s]
         /\ touchRecordCmd'[session[s].DeviceID] = NoSid
         /\ touchRecordCancel'[session[s].DeviceID] = NoSid
         /\ touchRecordData'[session[s].DeviceID] = NoSid
         /\ EventCount(session[s].DeviceID)' = 0
         /\ \E t \in Callers : /\ pc[t] = "st_lock2" /\ pc'[t] = "idle"
                               /\ ret' = [who |-> t, err |-> "nil", val |-> 0]

C3_HarvestIsExact == [] C3_Inv /\ [][C3_Step]_vars

\* a stop harvested a session holding every line scanned, and the device has no entry
C3_Witness ==
  \E s \in removedSids :
    /\ Len(parsed[s]) = MaxLines
    /\ touchRecordCmd[session[s].DeviceID] = NoSid
    /\ ret.err = "nil" /\ pc[ret.who] = "idle"

\* the device a line was read from: the device of the stream's session
LineDevice(line) == session[line[1]].DeviceID

\* what the recorder and the player hold for device d
DevState(d) ==
  <<touchRecordCmd[d], touchRecordCancel[d], touchRecordData[d], recEvents[d],
    [s \in Sids |-> IF session[s].DeviceID = d THEN <<"stored", session[s].RawEvents>>
                                               ELSE <<"none">>],
    touchPlaybackCancel[d]>>

C8_Inv ==
  \A s \in Sids : \A i \in 1..Len(session[s].RawEvents) :
    LineDevice(session[s].RawEvents[i]) = session[s].DeviceID

C8_Step ==
  /\ \A d \in Devices :
       (\/ \E t \in Callers : dev[t] = d /\ pc'[t] # pc[t]
        \/ \E s \in Sids : session[s].DeviceID = d /\ rpc'[s] # rpc[s]
        \/ DevState(d)' = DevState(d))
  /\ \A t \in Callers :
       pc[t] = "sr_lock" /\ pc'[t] = "idle"
         => touchRecordCmd[dev[t]] # NoSid

\* C8: every line in a session's buffer was read from a stream of the session's
\* own device; a step changes the entries, the buffer, the notifications or the
\* playback marker of a device only if it is a step of a call on that device or of
\* a reader of that device; a start is refused as "already recording" only when
\* its own device has an entry, so starts on two devices both succeed.
C8_DevicesIndependent == [] C8_Inv /\ [][C8_Step]_vars

\* both devices hold a session at once, each started by its own caller, each with
\* a line of its own stream
C8_Witness ==
  /\ touchRecordData["d1"] # NoSid /\ touchRecordData["d2"] # NoSid
  /\ Len(session[touchRecordData["d1"]].RawEvents) = 1
  /\ Len(session[touchRecordData["d2"]].RawEvents) = 1
  /\ session[touchRecordData["d1"]].RawEvents[1][1] = touchRecordData["d1"]
  /\ session[touchRecordData["d2"]].RawEvents[1][1] = touchRecordData["d2"]

\* C11: StopTouchRecording never returns "no recording data found".
C11_NeverNoRecordingData == ret.err # "NoRecordingData"

\* what holds instead: a stop call returns "no recording data found" only when the
\* session whose cancel handle it found was harvested by another stop call
C11_OnlyAfterOtherHarvest ==
  [][\A t \in Callers :
       pc[t] = "st_lock2" /\ ret' = [who |-> t, err |-> "NoRecordingData", val |-> 0]
         => loc[t].cancel \in removedSids /\ UNCHANGED recCallerState]_vars

C12_Step ==
  \A t \in Callers :
    pc[t] \in {"sr_locate", "sr_resolution"} /\ pc'[t] = "idle"
      => /\ ret' = [who |-> t,
                    err |-> IF pc[t] = "sr_locate" THEN "InputDeviceNotFound"
                                                    ELSE "StartFailed",
                    val |-> 0]
         /\ UNCHANGED <<mapVars, session, proc, readerVars, nextSid, recEvents, histVars>>
         /\ touchRecordCmd'[dev[t]] = NoSid
         /\ touchRecordData'[dev[t]] = NoSid
         /\ touchRecordMu' = Free

\* C12: a StartTouchRecording call that fails (the input device is not found, or
\* the stream cannot be created or started) returns the error of the failed step
\* and leaves the recorder as it found it: no map entry for the device (so
\* IsRecordingTouch is false and GetRecordingEventCount is 0), no session, no
\* stream process, no reader goroutine, no notification; the mutex is free and the
\* device has no entry, so a later start is not refused as already recording.
C12_FailedStartLeavesNothing == [][C12_Step]_vars

\* a start failed to launch the stream, and the start of the other caller, which
\* waited for the mutex, then passed the exists check for the same device
C12_Witness ==
  /\ ret = [who |-> "c1", err |-> "StartFailed", val |-> 0]
  /\ pc["c2"] = "sr_locate" /\ dev["c2"] = "d1"
  /\ touchRecordCmd["d1"] = NoSid /\ recEvents["d1"] = << >>
  /\ \A s \in Sids : proc[s] = "none" /\ rpc[s] = "none"

\* ==========================================================================
\* Properties of the player
\* ==========================================================================
\* the playback goroutines of device d that are running their event loop
RunningOn(d) == {p \in Pids : play[p].DeviceID = d /\ Running(p)}

\* C2: at any time at most one playback goroutine of a device is running its
\* event loop.
C2_OneTaskPerDevice == \A d \in Devices : Cardinality(RunningOn(d)) <= 1

\* C4: once StopTouchPlayback was called for the device of a playback that was
\* running its event loop, the playback passes no further loop-head check: when it
\* leaves the start of the goroutine, a command or the sleep of a wait event, it
\* goes to its deferred cleanup.
C4_StopHaltsPlayback ==
  [][\A p \in Pids :
       /\ stopCalled[p]
       /\ gpc[p] \in {"start", "cmd", "wsleep"}
       /\ <<gpc[p], gi[p]>> # <<gpc'[p], gi'[p]>>
       => gpc'[p] = "dlock"]_vars

\* how far a goroutine has come
Stage(pos) ==
  CASE pos = "none" -> 0
    [] pos = "start" -> 1
    [] pos \in {"sleep", "cmd", "wsleep"} -> 2
    [] pos = "dlock" -> 3
    [] pos = "demit" -> 4
    [] pos = "done" -> 5

Completions(p) ==
  Cardinality({k \in 1..Len(playEvents[p]) : playEvents[p][k] = "touch-playback-completed"})

C5_Inv ==
  \A p \in Pids :
    /\ Completions(p) = IF gpc[p] = "done" THEN 1 ELSE 0
    /\ gpc[p] \in {"demit", "done"} => touchPlaybackCancel[play[p].DeviceID] # p
    /\ gpc[p] \notin {"none", "done"} => ENABLED Player(p)

C5_Step ==
  \A p \in Pids :
    <<gpc[p], gi[p]>> # <<gpc'[p], gi'[p]>>
      => \/ Stage(gpc'[p]) > Stage(gpc[p])
         \/ /\ Stage(gpc'[p]) = Stage(gpc[p])
            /\ \/ gi'[p] > gi[p]
               \/ gi'[p] = gi[p] /\ gpc[p] = "sleep" /\ gpc'[p] # "sleep"

\* C5: a launched playback goroutine can always take its next step until it has
\* ended, and each of its steps takes it strictly forward through the script or
\* the deferred cleanup, so it ends; it has emitted touch-playback-completed
\* exactly once when it has ended and never before; from the moment it is about
\* to emit, the marker of its device does not name it.
C5_CompletedExactlyOnce == [] C5_Inv /\ [][C5_Step]_vars

\* the same under weak fairness of the goroutines (SpecPlayFair): every launched
\* playback ends, and then the marker of its device is not its own
C5_EventuallyCompleted ==
  \A p \in Pids :
    gpc[p] = "start"
      ~> (gpc[p] = "done" /\ Completions(p) = 1 /\ touchPlaybackCancel[play[p].DeviceID] # p)

\* a playback whose first command failed and which was then cancelled has ended
\* with its one completed notification
C5_Witness ==
  \E p \in Pids :
    /\ gpc[p] = "done" /\ ctxDone[p]
    /\ issued[p] = <<(<<1, FALSE>>)>>
    /\ playEvents[p] = <<"touch-playback-started", "touch-playback-completed">>
    /\ touchPlaybackCancel[play[p].DeviceID] = NoPid

\* the indices of the tap and swipe events of a script, in sequence order
CmdIndices(evs) ==
  SelectSeq([i \in 1..Len(evs) |-> i], LAMBDA i : evs[i].Type \in {"tap", "swipe"})

IssuedIndices(p) == [k \in 1..Len(issued[p]) |-> issued[p][k][1]]

IsPrefix(a, b) == Len(a) <= Len(b) /\ a = SubSeq(b, 1, Len(a))

\* C6: the events a playback has issued commands for are a prefix of the tap and
\* swipe events of its script in sequence order, each with the outcome of its own
\* command; once its loop is over without a cancellation they are all of them.
C6_CommandsInOrder ==
  \A p \in Pids :
    /\ IsPrefix(IssuedIndices(p), CmdIndices(play[p].Events))
    /\ \A k \in 1..Len(issued[p]) : issued[p][k][2] = play[p].Events[issued[p][k][1]].cmdOk
    /\ progress[p] = IssuedIndices(p)
    /\ gpc[p] \in {"dlock", "demit", "done"} /\ ~ctxDone[p]
         => IssuedIndices(p) = CmdIndices(play[p].Events)

\* a playback of the script with a wait and an unknown event ran to the end
C6_Witness ==
  \E p \in Pids :
    /\ gpc[p] = "done" /\ ~ctxDone[p]
    /\ Len(play[p].Events) = 4
    /\ IssuedIndices(p) = <<1, 3>>

\* C9 as stated: two PlayTouchScript calls for one device never both succeed while
\* both are still in progress, unless a stop cancelled a playback
C9_ExactlyOneOfTwo ==
  ~ /\ pc["c1"] = "pl_emit" /\ pc["c2"] = "pl_emit"
    /\ dev["c1"] = dev["c2"]
    /\ \A p \in Pids : ~ctxDone[p]

C9_Inv ==
  /\ \A d \in Devices :
       touchPlaybackCancel[d] # NoPid
         => /\ play[touchPlaybackCancel[d]].DeviceID = d
            /\ gpc[touchPlaybackCancel[d]] \in {"start", "sleep", "cmd", "wsleep", "dlock"}
  /\ pc["c1"] = "pl_emit" /\ pc["c2"] = "pl_emit" => loc["c1"].pid # loc["c2"].pid

C9_Step ==
  /\ ret' # ret /\ ret'.err = "AlreadyPlaying"
       => /\ \E d \in Devices : touchPlaybackCancel[d] # NoPid
          /\ UNCHANGED <<playVars, recVars, pc, dev, loc>>
  /\ \A t \in Callers :
       pc[t] = "idle" /\ pc'[t] = "pl_emit"
         => /\ touchPlaybackCancel[dev'[t]] = NoPid
            /\ touchPlaybackCancel'[dev'[t]] = loc'[t].pid
            /\ gpc[loc'[t].pid] = "none" /\ gpc'[loc'[t].pid] = "start"

\* C9 (amended): a PlayTouchScript call that returns "playback already in progress"
\* found a marker and changed nothing: no goroutine, no notification, no marker;
\* a call succeeds only when the marker of its device is not set, and sets it to
\* a new playback; the marker always names a playback of its own device that has
\* not yet deleted it. Two calls in progress at once hold different playbacks.
C9_PlayChecksMarker == [] C9_Inv /\ [][C9_Step]_vars

\* a play call was refused while the other caller's play call was still in progress
\* and its playback held the marker
C9_Witness ==
  /\ ret = [who |-> "c2", err |-> "AlreadyPlaying", val |-> 0]
  /\ pc["c1"] = "pl_emit"
  /\ touchPlaybackCancel["d1"] = loc["c1"].pid
  /\ Running(loc["c1"].pid)

\* the events after index i that the loop does not pass over: a tap, swipe or wait
\* event, or an event the loop has to pace for
StopsAfter(p, i) ==
  {j \in (i + 1)..Len(play[p].Events) :
     play[p].Events[j].ahead \/ play[p].Events[j].Type \in {"tap", "swipe", "wait"}}

C13_Inv ==
  \A p \in Pids : \A k \in 1..Len(issued[p]) :
    ~issued[p][k][2]
      => /\ k <= Len(progress[p]) /\ progress[p][k] = issued[p][k][1]
         /\ gpc[p] \in {"dlock", "demit", "done"} /\ ~ctxDone[p]
              => \A j \in (issued[p][k][1] + 1)..Len(play[p].Events) :
                   play[p].Events[j].Type \in {"tap", "swipe"}
                     => \E m \in (k + 1)..Len(issued[p]) : issued[p][m][1] = j

C13_Step ==
  \A p \in Pids :
    gpc[p] = "cmd" /\ ~play[p].Events[gi[p]].cmdOk /\ <<gpc[p], gi[p]>> # <<gpc'[p], gi'[p]>>
      => /\ progress'[p] = Append(progress[p], gi[p])
         /\ issued'[p] = Append(issued[p], <<gi[p], FALSE>>)
         /\ IF ctxDone[p] \/ StopsAfter(p, gi[p]) = {}
              THEN gpc'[p] = "dlock"
              ELSE /\ gpc'[p] \in {"sleep", "cmd", "wsleep"}
                   /\ \A j \in StopsAfter(p, gi[p]) : gi'[p] <= j
                   /\ gi'[p] \in StopsAfter(p, gi[p])

\* C13: when the command of an event fails, the step that takes its result still
\* emits the event's progress notification and goes on to the next event of the
\* script the loop stops at (or to the cleanup if there is none or the playback
\* was cancelled), exactly as after a successful command; a playback that was
\* not cancelled has issued the command of every later tap and swipe event, in
\* order, when its loop is over.
C13_FailedCommandContinues == [] C13_Inv /\ [][C13_Step]_vars

\* a playback whose first command failed went on to issue the swipe after it and
\* ended without a cancellation
C13_Witness ==
  \E p \in Pids :
    /\ gpc[p] = "done" /\ ~ctxDone[p] /\ ~stopCalled[p]
    /\ issued[p] = <<(<<1, FALSE>>), (<<3, TRUE>>)>>
    /\ progress[p] = <<1, 3>>

\* C14: a playback goroutine that is asleep when its context has been cancelled
\* can leave the sleep by the cancellation, whichever sleep it is in: the pacing
\* sleep before an event or the sleep of a wait event.
C14_CancelWakesEverySleep ==
  \A p \in Pids :
    ctxDone[p] /\ gpc[p] \in {"sleep", "wsleep"} => ENABLED GSleepCancelled(p)

\* the part of C14 the code keeps: the pacing sleep is left by the cancellation,
\* and a cancelled goroutine that leaves any sleep or command goes to its cleanup
\* unless the timer of the pacing sleep fired first
C14_PacingSleepIsCancellable ==
  /\ [] (\A p \in Pids : ctxDone[p] /\ gpc[p] = "sleep" => ENABLED GSleepCancelled(p))
  /\ [][\A p \in Pids :
          ctxDone[p] /\ gpc[p] \in {"cmd", "wsleep"} /\ gpc'[p] # gpc[p]
            => gpc'[p] = "dlock"]_vars

\* ==========================================================================
\* Properties of the parser
\* ==========================================================================
\* the session of geometry g with raw lines raw
SessionOf(g, raw) ==
  [Resolution |-> g.Resolution, MinX |-> g.R.MinX, MaxX |-> g.R.MaxX,
   MinY |-> g.R.MinY, MaxY |-> g.R.MaxY, RawEvents |-> raw]

GeoUnit == [Resolution |-> <<Num(1000), Num(1000)>>, R |-> Range(0, 1000, 0, 1000)]
GeoHalf == [Resolution |-> <<Num(500), Num(500)>>, R |-> Range(0, 1000, 0, 1000)]

\* the parser has returned from the session of geometry GeoUnit (scaling by 1) whose
\* raw lines are one stroke from raw (100,100) to end, lasting dur microseconds
UnitStroke(end, dur) ==
  /\ ppc = "returned"
  /\ psession = SessionOf(GeoUnit, StrokeLines("trk",
                   [pts |-> <<(<<Hex(100), Hex(100)>>), end>>, dur |-> dur], DownTime))

TapAt(ts, x, y) ==
  [Timestamp |-> ts, Type |-> "tap", X |-> x, Y |-> y, X2 |-> 0, Y2 |-> 0, Duration |-> 0]
SwipeAt(ts, x, y, x2, y2, d) ==
  [Timestamp |-> ts, Type |-> "swipe", X |-> x, Y |-> y, X2 |-> x2, Y2 |-> y2,
   Duration |-> d]

FloorScale(raw, min, max, dim) == (2 * (raw - min) * dim + (max - min)) \div (2 * (max - min))

\* C16: every endpoint of every event is scaled to
\* floor((raw - rawMin) * screenDim / (rawMax - rawMin) + 0.5) on an axis whose
\* effective range is increasing, also when raw is below rawMin or above rawMax,
\* and is the raw coordinate on an axis whose effective range is not increasing.
C16_ScaledByFloor ==
  \A k \in 1..Len(pstrokes) :
    LET s == pstrokes[k]
    IN /\ s.scaledStart[1] = IF ploc.maxX > ploc.minX
                               THEN FloorScale(s.rawStart[1], ploc.minX, ploc.maxX, ploc.screenW)
                               ELSE s.rawStart[1]
       /\ s.scaledEnd[1] = IF ploc.maxX > ploc.minX
                             THEN FloorScale(s.rawEnd[1], ploc.minX, ploc.maxX, ploc.screenW)
                             ELSE s.rawEnd[1]
       /\ s.scaledStart[2] = IF ploc.maxY > ploc.minY
                               THEN FloorScale(s.rawStart[2], ploc.minY, ploc.maxY, ploc.screenH)
                               ELSE s.rawStart[2]
       /\ s.scaledEnd[2] = IF ploc.maxY > ploc.minY
                             THEN FloorScale(s.rawEnd[2], ploc.minY, ploc.maxY, ploc.screenH)
                             ELSE s.rawEnd[2]

\* the part of C16 the code keeps: the formula for raw coordinates not below
\* rawMin, and the pass-through
C16_ScaledByFloorFromMin ==
  \A k \in 1..Len(pstrokes) :
    LET s == pstrokes[k]
    IN /\ s.rawStart[1] >= ploc.minX
            => s.scaledStart[1] = IF ploc.maxX > ploc.minX
                                    THEN FloorScale(s.rawStart[1], ploc.minX, ploc.maxX, ploc.screenW)
                                    ELSE s.rawStart[1]
       /\ s.rawEnd[2] >= ploc.minY
            => s.scaledEnd[2] = IF ploc.maxY > ploc.minY
                                  THEN FloorScale(s.rawEnd[2], ploc.minY, ploc.maxY, ploc.screenH)
                                  ELSE s.rawEnd[2]
       /\ ploc.maxX <= ploc.minX => s.scaledStart[1] = s.rawStart[1]

\* C17: in a session whose detected range of an axis is [min, max] with min < max,
\* a stroke endpoint whose raw coordinate is min is scaled to 0 and one whose raw
\* coordinate is max is scaled to the screen dimension, on both axes, for the
\* start point and the end point; the event carries these values.
C17_RangeEndsMapToScreenEnds ==
  \A k \in 1..Len(pstrokes) :
    LET s == pstrokes[k]
        e == pevents[k]
    IN /\ psession.MinX < psession.MaxX
            => /\ s.rawStart[1] = psession.MinX => e.X = 0
               /\ s.rawStart[1] = psession.MaxX => e.X = ploc.screenW
               /\ s.rawEnd[1] = psession.MinX => s.scaledEnd[1] = 0
               /\ s.rawEnd[1] = psession.MaxX => s.scaledEnd[1] = ploc.screenW
               /\ e.Type = "swipe" => e.X2 = s.scaledEnd[1]
       /\ psession.MinY < psession.MaxY
            => /\ s.rawStart[2] = psession.MinY => e.Y = 0
               /\ s.rawStart[2] = psession.MaxY => e.Y = ploc.screenH
               /\ s.rawEnd[2] = psession.MinY => s.scaledEnd[2] = 0
               /\ s.rawEnd[2] = psession.MaxY => s.scaledEnd[2] = ploc.screenH
               /\ e.Type = "swipe" => e.Y2 = s.scaledEnd[2]

\* with the range [150, 1000] on both axes and the default screen 1080x1920, a
\* stroke from raw (150,150) to raw (1000,1000) was parsed to a swipe from (0,0)
\* to (1080,1920)
C17_Witness ==
  /\ ppc = "returned"
  /\ psession.MinX = 150 /\ psession.MaxX = 1000
  /\ psession.MinY = 150 /\ psession.MaxY = 1000
  /\ Len(pevents) = 1
  /\ pstrokes[1].rawStart = <<150, 150>> /\ pstrokes[1].rawEnd = <<1000, 1000>>
  /\ pevents[1].Type = "swipe"
  /\ <<pevents[1].X, pevents[1].Y, pevents[1].X2, pevents[1].Y2>> = <<0, 0, 1080, 1920>>

\* C18: the parser has a next step until it has returned and consumes each raw
\* line once; no division it performs has divisor 0; the screen is the two numbers
\* of a two-part resolution (0 for a part that is not a number) and 1080x1920
\* otherwise; the effective range of an axis whose detected bounds are equal is
\* [0, screen dimension] and the detected range otherwise (an inverted or
\* zero-width effective range is not scaled); a session with no raw line yields no
\* event.
C18_NeverFails ==
  /\ \A k \in 1..Len(pstrokes) : 0 \notin pstrokes[k].divisors
  /\ pidx <= Len(psession.RawEvents)
  /\ ppc = "loop" => ENABLED (ParseLine \/ ParseReturn)
  /\ ppc # "idle" /\ Len(psession.RawEvents) = 0 => ppc = "returned" /\ pevents = << >>
  /\ ppc = "loop"
       => /\ IF Len(psession.Resolution) = 2
               THEN /\ ploc.screenW = (IF psession.Resolution[1].num
                                         THEN psession.Resolution[1].val ELSE 0)
                    /\ ploc.screenH = (IF psession.Resolution[2].num
                                         THEN psession.Resolution[2].val ELSE 0)
               ELSE ploc.screenW = 1080 /\ ploc.screenH = 1920
          /\ <<ploc.minX, ploc.maxX>> = IF psession.MaxX = psession.MinX
                                          THEN <<0, ploc.screenW>>
                                          ELSE <<psession.MinX, psession.MaxX>>
          /\ <<ploc.minY, ploc.maxY>> = IF psession.MaxY = psession.MinY
                                          THEN <<0, ploc.screenH>>
                                          ELSE <<psession.MinY, psession.MaxY>>
  /\ \A k \in 1..Len(pstrokes) :
       /\ ploc.maxX <= ploc.minX => pevents[k].X = pstrokes[k].rawStart[1]
       /\ ploc.maxY <= ploc.minY => pevents[k].Y = pstrokes[k].rawStart[2]

\* a session with resolution 0x500 and equal X bounds was parsed to the end: the
\* X range fell back to [0, 0] and raw X 100 was passed through, Y was scaled
C18_Witness ==
  /\ ppc = "returned"
  /\ psession.Resolution = <<Num(0), Num(500)>>
  /\ psession.MinX = psession.MaxX
  /\ <<ploc.minX, ploc.maxX>> = <<0, 0>>
  /\ Len(pevents) = 1
  /\ pevents[1].X = 100 /\ pevents[1].Y = 50
  /\ pstrokes[1].divisors = {1000}

\* a line that delimits a stroke by BTN_TOUCH, as the ABS_MT_TRACKING_ID line that
\* delimits it in the multi-touch protocol: value 1 as a tracking id, value 0 as
\* the sentinel ffffffff
AsTrackingId(line) ==
  IF line.m /\ line.evCode = "BTN_TOUCH"
    THEN RawLine(line.ts, "EV_ABS", "ABS_MT_TRACKING_ID",
                 IF Value32(line.evValue) = 1 THEN Hex(5) ELSE HexNeg(1))
    ELSE line

AllAsTrackingId(se) ==
  [se EXCEPT !.RawEvents = [i \in 1..Len(se.RawEvents) |-> AsTrackingId(se.RawEvents[i])]]

\* C19: the events parsed from a session whose strokes are delimited by BTN_TOUCH
\* lines are the events parsed from the same session with each BTN_TOUCH line
\* replaced by the corresponding ABS_MT_TRACKING_ID line.
C19_ButtonStrokesParseAsTrackingId ==
  ppc = "returned" => pevents = ParseResult(AllAsTrackingId(psession))

\* the part of C19 the code keeps: the two cases of the switch agree, that is,
\* the equality holds for BTN_TOUCH lines in the absolute-axis category
C19_AbsCasesAgree ==
  ppc = "returned"
    /\ (\A i \in 1..Len(psession.RawEvents) :
          psession.RawEvents[i].evCode = "BTN_TOUCH" => psession.RawEvents[i].evType = "EV_ABS")
    => pevents = ParseResult(AllAsTrackingId(psession))

\* the session of the example: range [0,1000] on both axes, resolution 500x500,
\* a touch-down, X = 100 and Y = 100, and the touch-up 50 ms later
ExampleSession ==
  SessionOf(GeoHalf, StrokeLines("trk", [pts |-> <<(<<Hex(100), Hex(100)>>)>>, dur |-> 50000],
                                 DownTime))

\* C20: parsing the example session yields exactly one event, a tap at (50,50)
\* with timestamp 0, the stroke's start relative to the first line.
C20_ExampleTapAtStrokeStart ==
  ppc = "returned" /\ psession = ExampleSession => pevents = <<TapAt(0, 50, 50)>>

\* what the code yields for the example: the tap at (50,50) with the timestamp of
\* the touch-up line, 50 ms
C20_ExampleTapAtRelease ==
  ppc = "returned" /\ psession = ExampleSession => pevents = <<TapAt(50, 50, 50)>>

\* the timestamps of the matched lines do not decrease in buffer order
NonDecreasingLines(raw) ==
  \A i, j \in 1..Len(raw) : i < j /\ raw[i].m /\ raw[j].m => raw[i].ts <= raw[j].ts

\* the timestamp of the first line of raw that the regular expression matches
FirstMatchedTs(raw) ==
  raw[CHOOSE i \in 1..Len(raw) : raw[i].m /\ \A j \in 1..(i - 1) : ~raw[j].m].ts

C21_Inv ==
  NonDecreasingLines(psession.RawEvents)
    => \A k \in 1..Len(pevents) :
         /\ pevents[k].Timestamp >= 0
         /\ \A j \in 1..(k - 1) : pevents[j].Timestamp <= pevents[k].Timestamp

C21_Step ==
  pevents' # pevents
    => /\ ppc = "loop" /\ pidx' = pidx + 1
       /\ Len(pevents') = Len(pevents) + 1
       /\ SubSeq(pevents', 1, Len(pevents)) = pevents
       /\ LET line == psession.RawEvents[pidx + 1]
          IN /\ line.m /\ line.evCode \in {"ABS_MT_TRACKING_ID", "BTN_TOUCH"}
             /\ ploc.tracking /\ ~ploc'.tracking
             /\ NonDecreasingLines(psession.RawEvents)
                  => pevents'[Len(pevents')].Timestamp
                       = (line.ts - FirstMatchedTs(psession.RawEvents)) \div 1000

\* C21: when the timestamps of the raw lines do not decrease, the timestamps of
\* the events are all >= 0 and do not decrease in sequence order; an event is
\* only ever appended at the end of the list, by the line that closes its stroke,
\* with that line's time since the first matched line in whole milliseconds, so
\* the events are in the order their strokes were closed.
C21_EventsInClosingOrder == [] C21_Inv /\ [][C21_Step]_vars

\* two strokes after a SYN_REPORT line were parsed to two events, the first 100 ms
\* and the second 450 ms after the first line
C21_Witness ==
  /\ ppc = "returned"
  /\ Len(psession.RawEvents) > 0
  /\ psession.RawEvents[1].evCode = "SYN_REPORT"
  /\ Len(pevents) = 2
  /\ pevents[1].Timestamp = 100 /\ pevents[2].Timestamp = 500

\* C22: when the resolution command failed or printed no WxH at start, the
\* Resolution of the session stored, and of the script a stop returns for it, is
\* 1080x1920.
C22_DefaultResolutionWhenUnavailable ==
  \A s \in Sids :
    session[s].wmSize \in {"fails", "garbage"}
      => /\ session[s].Resolution = "1080x1920"
         /\ s \in removedSids => scriptRes[s] = "1080x1920"

\* the part of C22 the code keeps: output without a WxH gives 1080x1920, and the
\* script carries the session's resolution; a failed command gives the empty
\* resolution
C22_DefaultOnlyWhenNoSizePrinted ==
  \A s \in Sids :
    /\ session[s].wmSize = "garbage" => session[s].Resolution = "1080x1920"
    /\ session[s].wmSize = "fails" => session[s].Resolution = ""
    /\ session[s].wmSize = "720x1280" => session[s].Resolution = "720x1280"
    /\ s \in removedSids => scriptRes[s] = session[s].Resolution

\* ---- C23 ----
IndexedTypes == {"text", "id", "desc", "description", "class", "contains", "advanced"}
IndexedCall ==
  selOp = "first" /\ selSel # NilSel /\ selRoot # NilNode /\ selSel.Type \in IndexedTypes
\* the element at position Index of the list FindAllElementsBySelector returned,
\* none when Index is not a position of the list
ElementAtIndex ==
  IF 0 <= selSel.Index /\ selSel.Index < Len(selRes.all)
    THEN Some(selRes.all[selSel.Index + 1])
    ELSE NilNode
\* C23: for the selector types text, id, desc/description, class, contains and
\* advanced, FindElementBySelector returns the element at position Index of the
\* list FindAllElementsBySelector returns for the same root and selector, and
\* returns none, without raising, when Index is outside 0..len-1, a negative
\* Index included.
C23_FirstIsElementAtIndex ==
  IndexedCall => selRes.first = ElementAtIndex
\* For an Index that is not negative the equality holds, and the list is the
\* matching nodes in depth-first order, node before children.
C23_FirstIsElementAtIndexFromZero ==
  (IndexedCall /\ selSel.Index >= 0) =>
     /\ selRes.first = ElementAtIndex
     /\ selRes.all = SelectSeq(Preorder(selRoot),
                              LAMBDA n : n \in {selRes.all[i] : i \in 1..Len(selRes.all)})
     /\ \A i, j \in 1..Len(selRes.all) : i # j => selRes.all[i].ptr # selRes.all[j].ptr
\* A negative Index indexes outside the list.
C23_NegativeIndexPanics ==
  (IndexedCall /\ selSel.Index < 0) => selRes.first = Panic
C23_NegativeIndexCalled ==
  IndexedCall /\ selSel.Index < 0 /\ Len(selRes.all) = 0 /\ selRes.first = Panic

\* ---- C24 ----
BoundsCall ==
  selOp = "first" /\ selSel # NilSel /\ selRoot # NilNode /\ selSel.Type = "bounds"
\* the nodes of the tree whose bounds string is the selector value
WithBounds == SelectSeq(Preorder(selRoot), LAMBDA n : n.Bounds = selSel.Value)
\* C24: with a selector of type bounds, FindElementBySelector returns a node of
\* the tree whose bounds string equals the selector value, none when no node of
\* the tree has it, and FindAllElementsBySelector returns exactly the nodes of
\* the tree whose bounds string equals the value.
C24_BoundsSelectsTreeNodes ==
  BoundsCall =>
    /\ IF Len(WithBounds) = 0
         THEN selRes.first = NilNode
         ELSE /\ selRes.first.kind = "node"
              /\ \E i \in 1..Len(WithBounds) : selRes.first.node = WithBounds[i]
    /\ selRes.all = WithBounds
\* What the two functions do for the type bounds: the first returns a node it
\* allocates, with the value as its bounds and nothing else, whatever the tree
\* holds; the second returns no node.
C24_BoundsIgnoresTree ==
  BoundsCall =>
    /\ selRes.first = Some(FreshNode(selSel.Value))
    /\ ~InTree(selRoot, selRes.first.node)
    /\ selRes.all = << >>

\* ---- C25 ----
\* conds[i..] read with OR loosest and AND tighter, acc being the conjunction of
\* the conditions of the current AND group
RECURSIVE OrOfAnds(_, _, _, _, _)
OrOfAnds(node, conds, seps, i, acc) ==
  IF i > Len(conds) THEN acc
  ELSE IF seps[i - 1] = "and"
    THEN OrOfAnds(node, conds, seps, i + 1, acc /\ evaluateAdvancedCondition(node, conds[i]))
    ELSE acc \/ OrOfAnds(node, conds, seps, i + 1, evaluateAdvancedCondition(node, conds[i]))
sLowerLog == <<"l", "o", "g">>
\* C25: an advanced query of conditions joined by ' AND ' / ' OR ', in any case,
\* matches a node iff one of its OR alternatives has all its AND conditions
\* matching ('A OR B AND C' is A or (B and C), 'A AND B OR C' is (A and B) or
\* C); the empty query matches no node; 'text~Log AND clickable=true' matches
\* exactly the nodes whose text contains 'log' in any case and whose clickable
\* attribute is 'true'.
C25_OrLoosestAndTighter ==
  selOp = "match" =>
    /\ Len(selQuery.conds) = 0 => selRes.match = FALSE
    /\ Len(selQuery.conds) > 0 =>
          selRes.match = OrOfAnds(selNode, selQuery.conds, selQuery.seps, 2,
                                  evaluateAdvancedCondition(selNode, selQuery.conds[1]))
    /\ selQuery.str = qLogAndClickable =>
          selRes.match = (/\ StrContains(ToLower(selNode.Text), sLowerLog)
                          /\ selNode.Clickable = sTrue)
\* 'sub oR text~Log and clickable=true' matched the Login node, whose text,
\* description and id do not contain 'sub'
C25_Witness ==
  /\ selOp = "match"
  /\ selQuery.str = cPlain \o <<" ", "o", "R", " ">> \o cTextLog
                      \o <<" ", "a", "n", "d", " ">> \o cClickable
  /\ selNode.Text = sLogin
  /\ selRes.match = TRUE

\* ---- C26 ----
\* the number of nodes of the tree that satisfy a condition
CountIn(root, Test(_)) == Len(SelectSeq(Preorder(root), Test))
TextMatches(root, v) == CountIn(root, LAMBDA n : n.Text = v \/ n.ContentDesc = v)
IdMatches(root, v) ==
  CountIn(root, LAMBDA n : n.ResourceID = v \/ HasSuffix(n.ResourceID, sIdInfix \o v))
DescMatches(root, v) == CountIn(root, LAMBDA n : n.ContentDesc = v)
\* the first applicable selector of a node in the order text, id, desc, path, bounds
FirstApplicable(node, root) ==
  IF node.Text # << >> /\ node.Text \notin GenericTexts /\ TextMatches(root, node.Text) = 1
    THEN [Type |-> "text", Value |-> node.Text]
  ELSE IF node.ResourceID # << >> /\ IdMatches(root, node.ResourceID) = 1
    THEN [Type |-> "id", Value |-> node.ResourceID]
  ELSE IF node.ContentDesc # << >> /\ DescMatches(root, node.ContentDesc) = 1
    THEN [Type |-> "desc", Value |-> node.ContentDesc]
  ELSE IF InTree(root, node)
    THEN [Type |-> "xpath", Value |-> <<"/">> \o node.ptr]
  ELSE IF node.Bounds # << >>
    THEN [Type |-> "bounds", Value |-> node.Bounds]
  ELSE NilSel
\* the tree has two nodes of text OK and one of text Submit, and Submit is no
\* node's content description
TwoOkOneSubmit(root) ==
  /\ CountIn(root, LAMBDA n : n.Text = sOK) = 2
  /\ CountIn(root, LAMBDA n : n.Text = sSubmit) = 1
  /\ DescMatches(root, sSubmit) = 0
OneIf(cond, suggestion) == IF cond THEN {suggestion} ELSE {}
\* one suggestion per non-empty attribute, with its priority
ExpectedSuggestions(node, root) ==
  OneIf(node.Text # << >>,
        Suggestion("text", node.Text,
                   IF node.Text \in GenericTexts \/ TextMatches(root, node.Text) # 1
                     THEN 3 ELSE 5))
    \cup OneIf(node.ResourceID # << >>,
               Suggestion("id", node.ResourceID,
                          IF IdMatches(root, node.ResourceID) # 1 THEN 3 ELSE 5))
    \cup OneIf(node.ContentDesc # << >>,
               Suggestion("desc", node.ContentDesc,
                          IF DescMatches(root, node.ContentDesc) # 1 THEN 3 ELSE 4))
    \cup OneIf(node.Class # << >>, Suggestion("class", node.Class, 2))
    \cup OneIf(InTree(root, node), Suggestion("xpath", <<"/">> \o node.ptr, 2))
    \cup OneIf(node.Bounds # << >>, Suggestion("bounds", node.Bounds, 1))
\* C27: GenerateSelectorSuggestions returns one suggestion per non-empty
\* attribute, with priority 5 for text (3 if generic or not unique), 5 for the
\* resource id (3 if not unique), 4 for the content description (3 if not
\* unique), 2 for class, 2 for the structural path and 1 for bounds, in a list
\* ordered by non-increasing priority.
C27_SuggestionsRanked ==
  selOp = "suggest" =>
    LET s == selRes.suggestions
    IN /\ {s[i] : i \in 1..Len(s)} = ExpectedSuggestions(selNode, selRoot)
       /\ Len(s) = Cardinality(ExpectedSuggestions(selNode, selRoot))
       /\ \A i, j \in 1..Len(s) : i < j => s[i].Priority >= s[j].Priority
\* the Login node, whose id is not unique: text 5, description 4, id 3, then
\* class, path and bounds
C27_Witness ==
  /\ selOp = "suggest"
  /\ selNode.Text = sLogin
  /\ Len(selRes.suggestions) = 6
  /\ [i \in 1..6 |-> selRes.suggestions[i].Priority] = <<5, 4, 3, 2, 2, 1>>
  /\ [i \in 1..3 |-> selRes.suggestions[i].Type] = <<"text", "desc", "id">>

\* ---- C28 ----
\* the block declares a path and reports the multi-touch X axis, by name or by code
Qualifies(block) ==
  /\ Len(block) >= 2
  /\ StrContains(block[1], sDevInput)
  /\ \E k \in 1..Len(block) : StrContains(block[k], sAbsMtX) \/ StrContains(block[k], s0035)
\* 1, plus 10 if the name line of the block contains a touch keyword in any case
ScoreOf(block) ==
  IF /\ NameLine(block) # 0
     /\ \E w \in 1..Len(touchKeywords) :
          StrContains(ToLower(block[NameLine(block)]), touchKeywords[w])
    THEN 11 ELSE 1
\* the positions in devOutput of the blocks that qualify; position i holds the
\* block of /dev/input/event(i-1)
Qualifying == {i \in 2..Len(devOutput) : Qualifies(devOutput[i])}
DeleteOfSaved ==
  /\ storeCalls' = storeCalls + 1
  /\ storeOp'.op = "delete"
  /\ lastSaved # NoScript
  /\ storeOp'.name = lastSaved.Name
\* the call succeeded and removed the file of that script and no other, and a
\* load does not return the script any more
RemovedExactlySaved ==
  /\ storeRet' = "nil"
  /\ \E f \in DOMAIN files :
       /\ files[f] = [kind |-> "json", doc |-> Marshal(lastSaved)]
       /\ DOMAIN files' = DOMAIN files \ {f}
  /\ \A f \in DOMAIN files' : files'[f] = files[f]
  /\ LET after == LoadFrom(files', ReadDir(DOMAIN files'), 1)
     IN \A i \in 1..Len(after) : after[i] # lastSaved
\* C29: for every name n, the empty name and names of disallowed characters
\* included, after SaveTouchScript of a script named n, DeleteTouchScript(n)
\* succeeds and removes exactly that stored script, so that a following load no
\* longer returns it.
C29_DeleteBySavedNameRemovesIt ==
  [][DeleteOfSaved => RemovedExactlySaved]_vars
\* It does for every name that is not empty; for the empty name the script is
\* stored under the placeholder, the deletion looks for the file ".json", finds
\* none and leaves the script stored.
C29_DeleteByNonEmptyNameRemovesIt ==
  [][DeleteOfSaved =>
       IF lastSaved.Name # << >>
         THEN RemovedExactlySaved
         ELSE /\ storeRet' = "script not found"
              /\ files' = files]_vars

\* ---- C30 ----
\* the loaded script has the fields of the saved one
SameScript(got, saved) ==
  /\ got.DeviceID = saved.DeviceID
  /\ got.Name = saved.Name
  /\ got.Resolution = saved.Resolution
  /\ got.CreatedAt = saved.CreatedAt
  /\ Len(got.Events) = Len(saved.Events)
  /\ \A k \in 1..Len(saved.Events) :
       /\ got.Events[k].Timestamp = saved.Events[k].Timestamp
       /\ got.Events[k].Type = saved.Events[k].Type
       /\ got.Events[k].X = saved.Events[k].X
       /\ got.Events[k].Y = saved.Events[k].Y
       /\ got.Events[k].X2 = saved.Events[k].X2
       /\ got.Events[k].Y2 = saved.Events[k].Y2
       /\ got.Events[k].Duration = saved.Events[k].Duration
C31_StreamCancelledBeforeRemoval ==
  \A s \in Sids :
    session[s].DeviceID # "none" /\ proc[s] = "running"
      => /\ s \notin removedSids
         /\ touchRecordCancel[session[s].DeviceID] = s

\* what holds instead: the stream whose cancel handle a stop call read is no
\* longer running from the call's first critical section on, and a stop call
\* that harvests the session whose handle it read leaves no running stream
C31_OwnStreamCancelled ==
  /\ \A t \in Callers :
       pc[t] \in {"st_wait", "st_lock2"} => proc[loc[t].cancel] # "running"
  /\ \A s \in removedSids :
       proc[s] = "running" => \A t \in Callers : loc[t].cancel # s

\* a stop call harvested a session it had not cancelled: the stream runs on
\* with no entry left for its device
C31_OrphanStream ==
  \E s \in removedSids :
    /\ proc[s] = "running"
    /\ touchRecordCancel[session[s].DeviceID] = NoSid

\* C32: the step of a stop call that harvests a session (parses it, removes its
\* entries and returns its script) harvests the session whose cancel handle the
\* call read in its first critical section, never a session started later.
C32_HarvestsOwnSession ==
  [][\A t \in Callers : \A s \in Sids :
       /\ pc[t] = "st_lock2" /\ pc'[t] = "idle"
       /\ s \in removedSids' /\ s \notin removedSids
       => loc[t].cancel = s]_vars

\* the part of C32 the code keeps: a session is harvested at most once, for the
\* entries of a device never name a session that was removed
C32_HarvestedAtMostOnce ==
  \A d \in Devices :
    /\ touchRecordData[d] \notin removedSids
    /\ touchRecordCancel[d] \notin removedSids
    /\ touchRecordCmd[d] \notin removedSids

\* C33: every line in the buffer of a session was read from the session's own
\* stream, and the reader of a session whose entries were removed appends
\* nothing to any buffer.
C33_LinesOfOwnStream ==
  \A s \in Sids : \A i \in 1..Len(session[s].RawEvents) :
    session[s].RawEvents[i][1] = s

\* the part of C33 the code keeps: a buffer grows only by a reader's append
\* under the mutex, while the entries of the reader's device name the session,
\* and the buffer of a removed session never changes
C33_AppendsToStoredSession ==
  [][\A s \in Sids :
       session'[s].RawEvents # session[s].RawEvents
         => /\ s \notin removedSids
            /\ \E r \in Sids :
                 /\ rpc[r] = "lock" /\ rpc'[r] = "scan"
                 /\ session[r].DeviceID = session[s].DeviceID
                 /\ touchRecordData[session[r].DeviceID] = s
                 /\ session'[s].RawEvents = Append(session[s].RawEvents, rline[r])]_vars

\* C34: while a playback goroutine runs its event loop and StopTouchPlayback has
\* not been called for its device since it was launched, the active-playback
\* marker of the device is its own: IsPlayingTouch returns true and
\* StopTouchPlayback cancels it.
C34_MarkerHeldWhileRunning ==
  \A p \in Pids :
    Running(p) /\ ~stopCalled[p] => touchPlaybackCancel[play[p].DeviceID] = p

\* what holds instead: the marker of a playback is removed by a stop, which
\* cancels it, or by the deferred delete of a playback goroutine of the same
\* device, its own or an earlier one
C34_MarkerRemovedByStopOrAnyExit ==
  [][\A p \in Pids :
       /\ play[p].DeviceID # "none"
       /\ touchPlaybackCancel[play[p].DeviceID] = p
       /\ touchPlaybackCancel'[play[p].DeviceID] # p
       => \/ ctxDone'[p] /\ ~ctxDone[p]
          \/ \E q \in Pids : /\ gpc[q] = "dlock" /\ gpc'[q] = "demit"
                             /\ play[q].DeviceID = play[p].DeviceID]_vars

\* the exit of an earlier playback removed the marker of a running playback
\* that no stop was called for
C34_MarkerLostToEarlierExit ==
  \E p, q \in Pids :
    /\ q < p /\ play[q].DeviceID = play[p].DeviceID
    /\ Running(p) /\ ~stopCalled[p] /\ ~ctxDone[p]
    /\ gpc[q] \in {"demit", "done"}
    /\ touchPlaybackCancel[play[p].DeviceID] = NoPid

\* C35: for each playback, touch-playback-started is emitted before every
\* touch-playback-progress and before touch-playback-completed of that
\* playback: whenever the playback has emitted anything, its first started /
\* completed notification is started and no progress precedes it.
C35_StartedFirst ==
  \A p \in Pids :
    /\ playEvents[p] # << >> => playEvents[p][1] = "touch-playback-started"
    /\ progress[p] # << >> => playEvents[p] # << >>

\* the part of C35 the code keeps: the call emits started exactly once, before
\* it returns, and completed is emitted at most once
C35_StartedOnceByCall ==
  \A p \in Pids :
    /\ Len(SelectSeq(playEvents[p], LAMBDA e : e = "touch-playback-started")) <= 1
    /\ Len(SelectSeq(playEvents[p], LAMBDA e : e = "touch-playback-completed")) <= 1
    /\ (gpc[p] # "none" /\ \A t \in Callers : ~(pc[t] = "pl_emit" /\ loc[t].pid = p))
         => \E i \in 1..Len(playEvents[p]) : playEvents[p][i] = "touch-playback-started"

\* a playback ended with completed emitted before started: an observer that
\* sets playing on started and clears it on completed is left playing
C35_ObserverLeftPlaying ==
  \E p \in Pids :
    /\ gpc[p] = "done"
    /\ playEvents[p] = <<"touch-playback-completed", "touch-playback-started">>

\* C36: no event reaches the switch before its timestamp has elapsed since the
\* start time; an event whose timestamp was still ahead when the loop reached
\* it was slept for by exactly the remaining difference, an event whose
\* timestamp had passed is executed at once without a sleep; and the progress
\* notifications of the playback carry strictly increasing "current" values
\* between 1 and the number of events.
C36_NotBeforeTimestamp ==
  /\ \A k \in 1..Len(paceLog) :
       LET e == paceLog[k]
       IN /\ e.at >= e.due
          /\ e.checked < e.due => e.slept = e.due - e.checked /\ e.at >= e.checked + e.slept
          /\ e.checked >= e.due => e.slept = 0 /\ e.at = e.checked
  /\ \A k \in 1..Len(paceProgress) :
       /\ paceProgress[k] \in 1..Len(paceScript)
       /\ \A j \in 1..(k - 1) : paceProgress[j] < paceProgress[k]
  /\ pacePc = "sleep" => paceScript[paceI].Timestamp > paceSlept.checked

\* a playback slept for the rest of one event's timestamp and executed the next,
\* whose timestamp had passed, at once, each with its progress notification
C36_Witness ==
  /\ pacePc = "done" /\ ~paceDone
  /\ Len(paceLog) = 2
  /\ paceLog[1].checked = 1 /\ paceLog[1].due = 3 /\ paceLog[1].slept = 2
  /\ paceLog[2].due = 1 /\ paceLog[2].slept = 0 /\ paceLog[2].at > 3
  /\ paceProgress = <<1, 2>>

\* the raw lines of the session being parsed, and what they report
PLines == psession.RawEvents
IsAbsLine(line) == line.m /\ line.evType = "EV_ABS" /\ ParseOk(line.evValue)
IsDownLine(line) ==
  /\ IsAbsLine(line)
  /\ \/ line.evCode = "ABS_MT_TRACKING_ID" /\ Value32(line.evValue) # -1
     \/ line.evCode = "BTN_TOUCH" /\ Value32(line.evValue) = 1
\* the positions reported for an axis by the lines after line a and before line
\* b, in order
AxisReports(code, a, b) ==
  LET idx == SelectSeq([j \in 1..Len(PLines) |-> j],
                       LAMBDA j : /\ a < j /\ j < b /\ IsAbsLine(PLines[j])
                                  /\ PLines[j].evCode = code)
  IN [n \in 1..Len(idx) |-> Value32(PLines[idx[n]].evValue)]
\* the touch-down line of the stroke that line k closes
DownBefore(k) == CHOOSE j \in 1..(k - 1) :
                   IsDownLine(PLines[j]) /\ \A i \in (j + 1)..(k - 1) : ~IsDownLine(PLines[i])
\* the start of the stroke line k closes, on an axis: the first report of the
\* stroke, or else the last report before it; the end: the last report before
\* line k. Each is a sequence of at most one value, empty when unknown.
StrokeStart(code, k) ==
  LET inStroke == AxisReports(code, DownBefore(k), k)
      before   == AxisReports(code, 0, k)
  IN IF inStroke # << >> THEN <<inStroke[1]>>
     ELSE IF before # << >> THEN <<before[Len(before)]>>
     ELSE << >>
StrokeEnd(code, k) ==
  LET before == AxisReports(code, 0, k)
  IN IF before # << >> THEN <<before[Len(before)]>> ELSE << >>
\* the iteration over line k closes a stroke as C37 says
ClosesAsReported(k) ==
  LET sx == StrokeStart("ABS_MT_POSITION_X", k)
      sy == StrokeStart("ABS_MT_POSITION_Y", k)
      ex == StrokeEnd("ABS_MT_POSITION_X", k)
      ey == StrokeEnd("ABS_MT_POSITION_Y", k)
  IN IF sx = << >> \/ sy = << >> \/ ex = << >> \/ ey = << >>
       THEN pevents' = pevents
       ELSE /\ Len(pevents') = Len(pevents) + 1
            /\ pstrokes'[Len(pstrokes')].rawStart = <<sx[1], sy[1]>>
            /\ pstrokes'[Len(pstrokes')].rawEnd = <<ex[1], ey[1]>>
\* a position report with the value ffffffff before line k
ReportsMinusOne(k) ==
  \E j \in 1..(k - 1) :
    /\ IsAbsLine(PLines[j])
    /\ PLines[j].evCode \in {"ABS_MT_POSITION_X", "ABS_MT_POSITION_Y"}
    /\ Value32(PLines[j].evValue) = -1

\* C37: the iteration that ends a stroke emits an event from the first position
\* reported on each axis after the touch-down, or else from the last position
\* reported before it, to the last position reported before the touch-up; it
\* emits no event when one of these was never reported, and ends the stroke
\* either way.
C37_StartIsFirstReport ==
  [][ppc = "loop" /\ pidx' = pidx + 1 /\ ploc.tracking /\ ~ploc'.tracking
       => ClosesAsReported(pidx + 1)]_vars

\* what holds instead: the same, for strokes closed when no position report so
\* far had the value ffffffff
C37_StartIsFirstReportNotMinusOne ==
  [][ppc = "loop" /\ pidx' = pidx + 1 /\ ploc.tracking /\ ~ploc'.tracking
       /\ ~ReportsMinusOne(pidx + 1)
       => ClosesAsReported(pidx + 1)]_vars

\* a second stroke with no position report of its own was closed: its event
\* starts and ends at the last position of the first stroke
C37_FallbackTaken ==
  /\ ppc = "returned"
  /\ Len(pstrokes) = 2
  /\ pstrokes[1].rawEnd = <<1000, 1000>>
  /\ pstrokes[2].rawStart = <<1000, 1000>> /\ pstrokes[2].rawEnd = <<1000, 1000>>

\* C38: an iteration over a raw line the expression matches whose category is
\* not EV_ABS, or whose value is not a hexadecimal number of at most 32 bits,
\* appends no event and changes no local of the parser except that it fixes
\* firstTimestamp when no earlier line had.
C38_OtherLinesChangeNothing ==
  [][ppc = "loop" /\ pidx' = pidx + 1
       /\ PLines[pidx + 1].m
       /\ (PLines[pidx + 1].evType # "EV_ABS" \/ ~ParseOk(PLines[pidx + 1].evValue))
       => /\ pevents' = pevents
          /\ pstrokes' = pstrokes
          /\ ploc' = [ploc EXCEPT !.firstTimestamp =
                                    IF @ < 0 THEN PLines[pidx + 1].ts ELSE @]]_vars

\* a BTN_TOUCH UP line of the key category was passed over in the middle of a
\* stroke whose start was known, and the stroke went on to its swipe
C38_Witness ==
  /\ ppc = "returned"
  /\ \E k \in 1..Len(PLines) :
       /\ PLines[k].m /\ PLines[k].evType = "EV_KEY" /\ PLines[k].evCode = "BTN_TOUCH"
       /\ PLines[k].evValue = Word("UP")
       /\ \E j \in 1..(k - 1) : IsDownLine(PLines[j])
       /\ \E j \in (k + 1)..Len(PLines) : PLines[j].evCode = "ABS_MT_TRACKING_ID"
  /\ Len(pevents) = 1 /\ pevents[1].Type = "swipe"
  /\ pstrokes[1].rawStart = <<100, 100>> /\ pstrokes[1].rawEnd = <<1000, 1000>>

\* what operator o asks of the attribute value av and the value v
OpHolds(o, av, v) ==
  CASE o = "="          -> ToLower(av) = ToLower(v)
    [] o \in {"~", ":"} -> StrContains(ToLower(av), ToLower(v))
    [] o = "^"          -> HasPrefix(ToLower(av), ToLower(v))
    [] o = "$"          -> HasSuffix(ToLower(av), ToLower(v))
\* the place of an operator in the order the condition is searched for them
OpRank(o) == CHOOSE k \in 1..5 : <<"~", "^", "$", "=", ":">>[k] = o

\* C39: the condition attr<op>value is split at its leftmost operator
\* character: for every attribute name and value, values holding other
\* operator characters included, it matches a node iff the node's attribute
\* equals (=), contains (~ and :), starts with (^) or ends with ($) the value,
\* letter case ignored.
C39_SplitAtLeftmostOperator ==
  selOp = "cond" =>
    selRes.match = OpHolds(selRes.oper, getNodeAttribute(selNode, selRes.attr), selRes.value)

\* what holds: the condition is split at the first occurrence of the first of
\* ~ ^ $ = : that occurs in it, and the value is trimmed of blanks. When no
\* operator listed before the condition's own occurs in the value, the match
\* is the operator's test of the attribute against the trimmed value.
C39_SplitAtFirstListedOperator ==
  (/\ selOp = "cond"
   /\ \A o \in CondOps : OpRank(o) < OpRank(selRes.oper) => ~StrContains(selRes.value, <<o>>))
    => selRes.match = OpHolds(selRes.oper, getNodeAttribute(selNode, selRes.attr),
                              TrimSpace(selRes.value))

\* text:a=b put to a node whose text is a=b does not match
C39_ContainedValueNotFound ==
  /\ selOp = "cond"
  /\ selRes.attr = aText /\ selRes.oper = ":" /\ selRes.value = <<"a", "=", "b">>
  /\ selNode.Text = <<"a", "=", "b">>
  /\ selRes.match = FALSE

\* ---- C40 ----
\* the last call loaded the scripts, after two scripts were saved one after the
\* other and none was deleted since
LoadedAfterTwoSaves ==
  /\ storeOp.op = "load"
  /\ lastSaved # NoScript
  /\ savedBefore # NoScript
BothLoaded ==
  /\ \E i \in 1..Len(loaded) : SameScript(loaded[i], savedBefore)
  /\ \E i \in 1..Len(loaded) : SameScript(loaded[i], lastSaved)
\* the name a character at a time, each that is not a letter, a digit, _ or -
\* read as _
SameButForReplaced(a, b) ==
  /\ Len(a) = Len(b)
  /\ \A i \in 1..Len(a) :
       \/ a[i] = b[i]
       \/ /\ a[i] \in {" ", "!", "_"}
          /\ b[i] \in {" ", "!", "_"}

C40_FirstOverwritten ==
  /\ LoadedAfterTwoSaves
  /\ savedBefore.Name = nmSpaced /\ lastSaved.Name = nmUnder
  /\ Len(loaded) = 1 /\ loaded[1].Name = nmUnder
====
